---- MODULE Spec2Model ----
(***************************************************************************)
(* A model of the Automated Reporting ETL pipeline:                        *)
(*   src/src/data_transformer.py  DataTransformer (tables, provenance log) *)
(*   src/src/data_extractor.py    DataExtractor.extract_data               *)
(*   src/src/data_loader.py       DataLoader.create_multi_format_report    *)
(*   src/src/report_generator.py  ReportGenerator (the orchestrator)       *)
(*                                                                         *)
(* Text (column names, string cells, action strings) is a sequence of      *)
(* one-character strings, so that the string operations of the code        *)
(* (lower, re.sub, strip, replace, split) are computed, not assumed.       *)
(***************************************************************************)
EXTENDS Integers, Sequences, FiniteSets, TLC

(***************************************************************************)
(* Bounds of the model.                                                    *)
(***************************************************************************)
\* rows of a table handed to a single transformer operation
MaxRows == 2
\* calls made on one DataTransformer
MaxCalls == 2
\* run_complete_pipeline calls made on one ReportGenerator
MaxRuns == 2
\* the longest column name of the tables given to standardize_column_names
MaxName == 3

VARIABLES
    \* ---- DataTransformer and the table it works on
    df,                  \* the DataFrame the last operation returned
    prev,                \* the DataFrame the last operation was given
    tcfg,                \* the transformation configuration of the caller
    transformation_log,  \* DataTransformer.transformation_log
    lastop,              \* the last operation called, and how it ended
    ran,                 \* the steps the last transform_data call executed
    calls,               \* number of calls made on the transformer
    warnings,            \* the subjects of the warnings the last call logged
    \* ---- ReportGenerator
    pc,                  \* position of run_complete_pipeline
    config,              \* ReportGenerator.config
    config0,             \* the configuration at the start of the current call
    kwargs,              \* the per-call override arguments
    pipeline_results,    \* ReportGenerator.pipeline_results
    result,              \* the dictionary run_complete_pipeline returned
    now,                 \* the clock (datetime.now()), one tick per run
    phases,              \* the phases the current run has started
    completed,           \* the phases the current run has completed
    exc,                 \* the message of the exception the run raised
    env                  \* the input directory, the output device, the config file

vars == <<df, prev, tcfg, transformation_log, lastop, ran, calls, warnings,
          pc, config, config0, kwargs, pipeline_results, result, now,
          phases, completed, exc, env>>

(***************************************************************************)
(* Cells.  A cell is a number (a rational n/d), a string, a boolean or the *)
(* missing marker (NaN / None).                                            *)
(***************************************************************************)
NA == [k |-> "na", n |-> 0, d |-> 1, s |-> <<>>]
Num(i) == [k |-> "num", n |-> i, d |-> 1, s |-> <<>>]
Str(t) == [k |-> "str", n |-> 0, d |-> 1, s |-> t]
Bool(b) == [k |-> "bool", n |-> (IF b THEN 1 ELSE 0), d |-> 1, s |-> <<>>]

IsNA(c) == c.k = "na"

RECURSIVE GCD(_, _)
GCD(a, b) == IF b = 0 THEN a ELSE GCD(b, a % b)

Abs(i) == IF i < 0 THEN -i ELSE i

\* the rational n/d in lowest terms, d > 0
Rat(n, d) ==
    LET g == GCD(Abs(n), d)
    IN  [k |-> "num", n |-> n \div g, d |-> d \div g, s |-> <<>>]

RatAdd(a, b) == Rat(a.n * b.d + b.n * a.d, a.d * b.d)

(***************************************************************************)
(* Sequence helpers.                                                       *)
(***************************************************************************)
RECURSIVE SelectIdx(_, _, _)
\* the indices i of 1..n, in order, for which keep[i]
SelectIdx(keep, i, n) ==
    IF i > n THEN <<>>
    ELSE (IF keep[i] THEN <<i>> ELSE <<>>) \o SelectIdx(keep, i + 1, n)

Range(s) == {s[i] : i \in DOMAIN s}

IsPrefix(s, t) == Len(s) <= Len(t) /\ SubSeq(t, 1, Len(s)) = s

(***************************************************************************)
(* Tables.  A DataFrame is its column names (pandas allows duplicates),    *)
(* the dtype of each column and its rows.                                  *)
(***************************************************************************)
NRows(t) == Len(t.rows)
NCols(t) == Len(t.cols)
Shape(t) == <<NRows(t), NCols(t)>>

Column(t, j) == [i \in 1..NRows(t) |-> t.rows[i][j]]

\* positions of the columns called name
Positions(t, name) == {j \in 1..NCols(t) : t.cols[j] = name}

IsNumericDtype(dt) == dt \in {"int64", "float64"}

\* df.isnull().sum().sum()
MissingCount(t) ==
    Cardinality({<<i, j>> \in (1..NRows(t)) \X (1..NCols(t)) : IsNA(t.rows[i][j])})

\* the rows of t at the indices idx, in that order
TakeRows(t, idx) == [t EXCEPT !.rows = [i \in 1..Len(idx) |-> t.rows[idx[i]]]]

\* column j replaced by the values vals, with dtype dt
SetColumn(t, j, vals, dt) ==
    [t EXCEPT !.rows = [i \in 1..NRows(t) |-> [t.rows[i] EXCEPT ![j] = vals[i]]],
              !.dtypes = [t.dtypes EXCEPT ![j] = dt]]

(***************************************************************************)
(* Text.                                                                   *)
(***************************************************************************)
LowerAlnum ==
    {"a","b","c","d","e","f","g","h","i","j","k","l","m","n","o","p","q","r",
     "s","t","u","v","w","x","y","z","0","1","2","3","4","5","6","7","8","9"}

\* str.lower() on one character (the model's upper-case letters)
LowerChar(c) ==
    CASE c = "A" -> "a" [] c = "B" -> "b" [] c = "K" -> "k" [] c = "U" -> "u"
      [] OTHER -> c

\* re.sub(r'[^a-z0-9_]', '_', .) on one character
SubChar(c) == IF c \in LowerAlnum \cup {"_"} THEN c ELSE "_"

RECURSIVE CollapseUnderscores(_)
\* re.sub(r'_+', '_', s)
CollapseUnderscores(s) ==
    IF Len(s) <= 1 THEN s
    ELSE IF s[1] = "_" /\ s[2] = "_" THEN CollapseUnderscores(Tail(s))
    ELSE <<s[1]>> \o CollapseUnderscores(Tail(s))

RECURSIVE StripLeft(_, _)
StripLeft(s, ch) ==
    IF s # <<>> /\ s[1] = ch THEN StripLeft(Tail(s), ch) ELSE s

RECURSIVE StripRight(_, _)
StripRight(s, ch) ==
    IF s # <<>> /\ s[Len(s)] = ch THEN StripRight(SubSeq(s, 1, Len(s) - 1), ch) ELSE s

\* str.strip(ch)
Strip(s, ch) == StripRight(StripLeft(s, ch), ch)

\* a faulty variant: the underscores are stripped before the other characters are replaced
StandardNameStripsFirst(name) ==
    CollapseUnderscores([i \in 1..Len(Strip(name, "_")) |->
                            SubChar(LowerChar(Strip(name, "_")[i]))])

\* the canonical form of one column name
StandardName(name) ==
    Strip(CollapseUnderscores([i \in 1..Len(name) |-> SubChar(LowerChar(name[i]))]), "_")

Unknown == <<"U","n","k","n","o","w","n">>
KwDrop == <<"d","r","o","p">>
KwFill == <<"f","i","l","l">>
KwForward == <<"f","o","r","w","a","r","d">>
KwBackward == <<"b","a","c","k","w","a","r","d">>

(***************************************************************************)
(* DataTransformer: the provenance log.  An operation returns              *)
(* [ok, df, log, inp, same]: whether it returned (or raised), the table it *)
(* returned, the transformer's log afterwards, the caller's DataFrame      *)
(* object as the call left it (assignments to df[...] and df.columns act   *)
(* on that object until df is rebound), and whether the returned table is  *)
(* that same object.  warned lists the subjects (column, field, rule or KPI *)
(* names) of the logger.warning records of the call.                       *)
(***************************************************************************)
\* a faulty variant: the entry is put in front of the log
LogTransformationPrepends(log, t, operation, details) ==
    <<[timestamp |-> t, operation |-> operation, details |-> details]>> \o log

LogTransformation(log, t, operation, details) ==
    Append(log, [timestamp |-> t, operation |-> operation, details |-> details])

\* "return df", df still the object the caller passed
Returned(t, log) ==
    [ok |-> TRUE, df |-> t, log |-> log, inp |-> t, same |-> TRUE, warned |-> <<>>]
\* "return df", df rebound to a new object; the caller's object was left as inp
Rebound(t, log, inp) ==
    [ok |-> TRUE, df |-> t, log |-> log, inp |-> inp, same |-> FALSE, warned |-> <<>>]
\* an exception leaves the method
Raised(t, log) ==
    [ok |-> FALSE, df |-> t, log |-> log, inp |-> t, same |-> TRUE, warned |-> <<>>]

StandardizeColumnNames(t, log, clock) ==
    Returned([t EXCEPT !.cols = [j \in 1..NCols(t) |-> StandardName(t.cols[j])]],
             LogTransformation(log, clock, "Column Standardization", <<NCols(t)>>))

(***************************************************************************)
(* handle_missing_values                                                   *)
(***************************************************************************)
\* Series.mean(): the mean of the non-missing values, NaN when there is none
Mean(vals) ==
    LET idx == SelectIdx([i \in DOMAIN vals |-> ~IsNA(vals[i])], 1, Len(vals))
        Sum[i \in 0..Len(idx)] ==
            IF i = 0 THEN Num(0) ELSE RatAdd(Sum[i - 1], vals[idx[i]])
    IN  IF idx = <<>> THEN NA
        ELSE Rat(Sum[Len(idx)].n, Sum[Len(idx)].d * Len(idx))

\* a faulty variant: only the first missing cell is filled
FillNAFirstOnly(vals, v) ==
    [i \in DOMAIN vals |->
        IF IsNA(vals[i]) /\ \A h \in 1..(i - 1) : ~IsNA(vals[h]) THEN v ELSE vals[i]]

\* Series.fillna(v)
FillNA(vals, v) == [i \in DOMAIN vals |-> IF IsNA(vals[i]) THEN v ELSE vals[i]]

\* Series.fillna(method='ffill'): the nearest preceding non-missing value
FFill(vals) ==
    LET F[i \in 0..Len(vals)] ==
            IF i = 0 THEN NA ELSE IF IsNA(vals[i]) THEN F[i - 1] ELSE vals[i]
    IN  [i \in DOMAIN vals |-> F[i]]

\* Series.fillna(method='bfill'): the nearest following non-missing value
BFill(vals) ==
    LET n == Len(vals)
        B[i \in 1..(n + 1)] ==
            IF i = n + 1 THEN NA ELSE IF IsNA(vals[i]) THEN B[i + 1] ELSE vals[i]
    IN  [i \in DOMAIN vals |-> B[i]]

\* the dtype of a column after its missing cells were filled with v
FilledDtype(dt, vals, v) ==
    IF \E i \in DOMAIN vals : IsNA(vals[i]) /\ ~IsNA(v) /\ v.k # "num" /\ IsNumericDtype(dt)
    THEN "object" ELSE dt

\* the values fillna gives column j: how is "mean", "ffill", "bfill" or "value"
FilledValues(t, j, how, v) ==
    LET vals == Column(t, j)
    IN  CASE how = "ffill" -> FFill(vals)
          [] how = "bfill" -> BFill(vals)
          [] how = "mean" -> FillNA(vals, Mean(vals))
          [] OTHER -> FillNA(vals, v)

\* df[column] = df[column].fillna(...), where df[column] selects every column
\* of that name (the positions js)
FillColumns(t, js, how, v) ==
    [t EXCEPT
        !.rows = [i \in 1..NRows(t) |->
                    [j \in 1..NCols(t) |->
                        IF j \in js THEN FilledValues(t, j, how, v)[i] ELSE t.rows[i][j]]],
        !.dtypes = [j \in 1..NCols(t) |->
                        IF j \in js /\ how = "value"
                        THEN FilledDtype(t.dtypes[j], Column(t, j), v)
                        ELSE t.dtypes[j]]]

\* the fill of a numeric column with its mean, of any other with 'Unknown'
FillDefault(t, j) ==
    IF IsNumericDtype(t.dtypes[j])
    THEN FillColumns(t, {j}, "mean", NA)
    ELSE FillColumns(t, {j}, "value", Str(Unknown))

\* a faulty variant: no row is dropped
DropNAKeepsRows(t, name) == t

\* df.dropna(subset=[column])
DropNA(t, name) ==
    TakeRows(t, SelectIdx([i \in 1..NRows(t) |->
                              \A j \in Positions(t, name) : ~IsNA(t.rows[i][j])],
                          1, NRows(t)))

\* one iteration of the loop over df.columns: [ok, df, rebinds]
ResolveColumn(t, name, strategy) ==
    LET js == Positions(t, name)
        \* df[column].dtype: df[column] is a DataFrame when the name is duplicated,
        \* and a DataFrame has no attribute dtype
        one == CHOOSE j \in js : TRUE
        byDtype == IF Cardinality(js) > 1 THEN [ok |-> FALSE, df |-> t, rebinds |-> FALSE]
                   ELSE [ok |-> TRUE, df |-> FillDefault(t, one), rebinds |-> FALSE]
    IN  IF name \in DOMAIN strategy
        THEN IF strategy[name] = Str(KwDrop) THEN [ok |-> TRUE, df |-> DropNA(t, name), rebinds |-> TRUE]
             ELSE IF strategy[name] = Str(KwFill) THEN byDtype
             ELSE IF strategy[name] = Str(KwForward)
                  THEN [ok |-> TRUE, df |-> FillColumns(t, js, "ffill", NA), rebinds |-> FALSE]
             ELSE IF strategy[name] = Str(KwBackward)
                  THEN [ok |-> TRUE, df |-> FillColumns(t, js, "bfill", NA), rebinds |-> FALSE]
             ELSE [ok |-> TRUE, df |-> FillColumns(t, js, "value", strategy[name]), rebinds |-> FALSE]
        ELSE byDtype

\* the loop after one iteration gave r: st = [ok, df, inp, same]
AfterColumn(st, r) ==
    [ok |-> r.ok, df |-> r.df,
     inp |-> IF st.same /\ ~r.rebinds THEN r.df ELSE st.inp,
     same |-> st.same /\ ~r.rebinds]

RECURSIVE ResolveColumns(_, _, _, _)
\* for column in df.columns: ...   (names is df.columns at loop entry)
ResolveColumns(st, names, j, strategy) ==
    IF j > Len(names) THEN st
    ELSE CHOOSE out \in
            {IF after.ok THEN ResolveColumns(after, names, j + 1, strategy) ELSE after :
                after \in {AfterColumn(st, ResolveColumn(st.df, names[j], strategy))}} : TRUE

HandleMissingValues(t, strategy, log, clock) ==
    LET r == CHOOSE out \in
                {ResolveColumns([ok |-> TRUE, df |-> t, inp |-> t, same |-> TRUE],
                                t.cols, 1, strategy)} : TRUE
        entry == LogTransformation(log, clock, "Missing Value Handling",
                     <<MissingCount(t), MissingCount(r.df), NRows(t), NCols(t),
                       NRows(r.df), NCols(r.df)>>)
    IN  IF r.ok
        THEN [ok |-> TRUE, df |-> r.df, log |-> entry, inp |-> r.inp, same |-> r.same,
              warned |-> <<>>]
        ELSE [ok |-> FALSE, df |-> r.df, log |-> log, inp |-> r.inp, same |-> r.same,
              warned |-> <<>>]

(***************************************************************************)
(* Configuration dictionaries: a dict is a function from its keys.         *)
(***************************************************************************)
\* d.get(key, default)
Get(d, key, default) == IF key \in DOMAIN d THEN d[key] ELSE default

\* the dict after d.update(u)
Updated(d, u) ==
    [key \in DOMAIN d \cup DOMAIN u |-> IF key \in DOMAIN u THEN u[key] ELSE d[key]]

EmptyDict == [key \in {} |-> TRUE]

(***************************************************************************)
(* remove_duplicates                                                       *)
(***************************************************************************)
\* subset is [given |-> FALSE] for None, else the list of key column names
NoSubset == [given |-> FALSE, names |-> <<>>]
Subset(names) == [given |-> TRUE, names |-> names]

KeyPositions(t, subset) ==
    IF subset.given THEN UNION {Positions(t, n) : n \in Range(subset.names)}
    ELSE 1..NCols(t)

SameKey(t, js, i1, i2) == \A j \in js : t.rows[i1][j] = t.rows[i2][j]

\* a faulty variant: the latest row of a group is kept whatever keep says
DropDuplicatesIgnoresKeep(t, subset, keep) ==
    LET js == KeyPositions(t, subset)
        kept == [i \in 1..NRows(t) |-> ~\E h \in (i + 1)..NRows(t) : SameKey(t, js, h, i)]
    IN  TakeRows(t, SelectIdx(kept, 1, NRows(t)))

\* df.drop_duplicates(subset=subset, keep=keep)
DropDuplicates(t, subset, keep) ==
    LET js == KeyPositions(t, subset)
        kept == [i \in 1..NRows(t) |->
                    IF keep = "first"
                    THEN ~\E h \in 1..(i - 1) : SameKey(t, js, h, i)
                    ELSE ~\E h \in (i + 1)..NRows(t) : SameKey(t, js, h, i)]
    IN  TakeRows(t, SelectIdx(kept, 1, NRows(t)))

RemoveDuplicates(t, subset, keep, log, clock) ==
    IF subset.given /\ \E n \in Range(subset.names) : Positions(t, n) = {}
    THEN Raised(t, log)    \* KeyError
    ELSE LET u == DropDuplicates(t, subset, keep)
         IN  Rebound(u, LogTransformation(log, clock, "Duplicate Removal",
                            <<NRows(t) - NRows(u), NRows(t), NCols(t), NRows(u), NCols(u)>>),
                     t)

(***************************************************************************)
(* convert_data_types                                                      *)
(***************************************************************************)
Digits == <<"0","1","2","3","4","5","6","7","8","9">>
IsDigit(c) == c \in Range(Digits)
DigitVal(c) == (CHOOSE i \in DOMAIN Digits : Digits[i] = c) - 1

RECURSIVE DigitsVal(_)
DigitsVal(s) ==
    IF s = <<>> THEN 0 ELSE 10 * DigitsVal(SubSeq(s, 1, Len(s) - 1)) + DigitVal(s[Len(s)])

IsNumeral(s) == s # <<>> /\ \A i \in DOMAIN s : IsDigit(s[i])

\* the cell as a number, NA when it is none (errors='coerce')
CoerceNumeric(c) ==
    CASE c.k = "num" -> c
      [] c.k = "bool" -> Num(c.n)
      [] c.k = "str" /\ IsNumeral(c.s) -> Num(DigitsVal(c.s))
      [] OTHER -> NA

\* a point in time: n nanoseconds after the epoch, or the date the text s spells
Time(n, s) == [k |-> "time", n |-> n, d |-> 1, s |-> s]

\* the texts of the model that spell a date: a year of four digits
IsDateText(s) == Len(s) = 4 /\ IsNumeral(s)

\* the cell as a timestamp, NaT when it is none (errors='coerce')
CoerceDatetime(c) ==
    CASE c.k = "num" -> Time(c.n \div c.d, <<>>)
      [] c.k = "time" -> c
      [] c.k = "str" /\ IsDateText(c.s) -> Time(0, c.s)
      [] OTHER -> NA

\* whether the cell can be cast to the numpy type
Castable(c, target) ==
    CASE c.k = "na" -> target = "float64"
      [] c.k = "str" -> IsNumeral(c.s)
      [] OTHER -> TRUE

CastCell(c, target) ==
    IF target = "int64" /\ c.k = "num" THEN Num(c.n \div c.d)   \* model values are >= 0
    ELSE CoerceNumeric(c)

\* one entry of type_mapping on the table: [ok, df]
ConvertColumn(t, name, target) ==
    LET js == Positions(t, name)
        j == CHOOSE x \in js : TRUE
        vals == Column(t, j)
    IN  \* "original_type = df[column].dtype": df[column] is a DataFrame when the
        \* name is duplicated, and the AttributeError fails the conversion
        CASE Cardinality(js) # 1 -> [ok |-> FALSE, df |-> t]
          [] target = "category" ->
               [ok |-> TRUE,
                df |-> [t EXCEPT !.dtypes = [x \in 1..NCols(t) |->
                                    IF x \in js THEN "category" ELSE t.dtypes[x]]]]
          [] target = "datetime" ->
               \* a bool is not convertible to datetime, whatever errors says
               IF \E i \in DOMAIN vals : vals[i].k = "bool" THEN [ok |-> FALSE, df |-> t]
               ELSE [ok |-> TRUE,
                     df |-> SetColumn(t, j, [i \in DOMAIN vals |-> CoerceDatetime(vals[i])],
                                      "datetime64[ns]")]
          [] target = "numeric" ->
               [ok |-> TRUE,
                df |-> SetColumn(t, j, [i \in DOMAIN vals |-> CoerceNumeric(vals[i])],
                                 "float64")]
          [] target \in {"int64", "float64"}
                /\ \A i \in DOMAIN vals : Castable(vals[i], target) ->
               [ok |-> TRUE,
                df |-> SetColumn(t, j, [i \in DOMAIN vals |-> CastCell(vals[i], target)],
                                 target)]
          [] OTHER -> [ok |-> FALSE, df |-> t]

RECURSIVE ConvertAll(_, _, _)
\* the loop over type_mapping.items(): [df, made, warned], made the conversions
\* made; a column that is not in the table is passed over without a warning
ConvertAll(t, mapping, i) ==
    IF i > Len(mapping) THEN [df |-> t, made |-> 0, warned |-> <<>>]
    ELSE LET name == mapping[i][1]
             present == Positions(t, name) # {}
             r == IF ~present THEN [ok |-> FALSE, df |-> t]
                  ELSE ConvertColumn(t, name, mapping[i][2])
             rest == ConvertAll(r.df, mapping, i + 1)
         IN  [df |-> rest.df, made |-> rest.made + (IF r.ok THEN 1 ELSE 0),
              warned |-> (IF present /\ ~r.ok THEN <<name>> ELSE <<>>) \o rest.warned]

\* a faulty variant: the entry is logged whatever was converted
LogsConversionsAlways(made) == TRUE

\* whether convert_data_types logs: "if conversions_made:"
LogsConversions(made) == made > 0

ConvertDataTypes(t, mapping, log, clock) ==
    LET r == ConvertAll(t, mapping, 1)
    IN  [Returned(r.df,
            IF LogsConversions(r.made)
            THEN LogTransformation(log, clock, "Data Type Conversion", <<r.made>>)
            ELSE log) EXCEPT !.warned = r.warned]

(***************************************************************************)
(* Formulas (df.eval).  A formula is an operator applied to two operands,  *)
(* each a column reference or a literal; op "" is the empty string, op "?" *)
(* a text that does not parse.                                             *)
(***************************************************************************)
ColRef(name) == [col |-> TRUE, name |-> name, c |-> NA]
Lit(c) == [col |-> FALSE, name |-> <<>>, c |-> c]
Formula(op, l, r) == [op |-> op, l |-> l, r |-> r]
NoFormula == Formula("", Lit(NA), Lit(NA))
BadSyntax == Formula("?", Lit(NA), Lit(NA))

Inf(sign) == [k |-> "inf", n |-> sign, d |-> 1, s |-> <<>>]

IsNumber(c) == c.k \in {"num", "bool"}

\* whether the operation raises TypeError on the two cells
CellRaises(op, a, b) ==
    CASE op = "id" -> FALSE
      [] op = "+" -> (a.k = "str") # (b.k = "str") /\ ~IsNA(a) /\ ~IsNA(b)
      [] OTHER -> (a.k = "str" \/ b.k = "str") /\ ~IsNA(a) /\ ~IsNA(b)

CellOp(op, a, b) ==
    CASE op = "id" -> a
      [] op = ">" -> Bool(IsNumber(a) /\ IsNumber(b) /\ a.n * b.d > b.n * a.d)
      [] IsNA(a) \/ IsNA(b) -> NA
      [] op = "+" /\ a.k = "str" -> Str(a.s \o b.s)
      [] op = "+" -> RatAdd(a, b)
      [] op = "/" /\ b.n = 0 ->
            IF a.n = 0 THEN NA ELSE Inf(IF a.n > 0 THEN 1 ELSE -1)
      [] op = "/" -> Rat((IF b.n < 0 THEN -1 ELSE 1) * a.n * b.d, Abs(b.n) * a.d)
      [] OTHER -> NA

\* a name resolves to the last column of that name
Resolves(t, x) == ~x.col \/ Positions(t, x.name) # {}
OperandCell(t, x, i) ==
    IF x.col
    THEN t.rows[i][CHOOSE j \in Positions(t, x.name) :
                      \A h \in Positions(t, x.name) : h <= j]
    ELSE x.c

\* df.eval(formula): [ok, vals]
Eval(t, f) ==
    IF f.op \notin {"id", "+", "/", ">"} \/ ~Resolves(t, f.l) \/ ~Resolves(t, f.r)
       \/ \E i \in 1..NRows(t) :
              CellRaises(f.op, OperandCell(t, f.l, i), OperandCell(t, f.r, i))
    THEN [ok |-> FALSE, vals |-> <<>>]
    ELSE [ok |-> TRUE,
          vals |-> [i \in 1..NRows(t) |->
                      CellOp(f.op, OperandCell(t, f.l, i), OperandCell(t, f.r, i))]]

\* the dtype pandas gives a column of these values
DtypeOf(vals) ==
    IF \E i \in DOMAIN vals : vals[i].k = "str" THEN "object"
    ELSE IF vals # <<>> /\ \A i \in DOMAIN vals : vals[i].k = "bool" THEN "bool"
    ELSE "float64"

\* df[name] = vals: every column of that name is set, a new one is appended
AssignColumn(t, name, vals) ==
    IF Positions(t, name) # {}
    THEN [t EXCEPT
            !.rows = [i \in 1..NRows(t) |->
                        [j \in 1..NCols(t) |->
                            IF j \in Positions(t, name) THEN vals[i] ELSE t.rows[i][j]]],
            !.dtypes = [j \in 1..NCols(t) |->
                            IF j \in Positions(t, name) THEN DtypeOf(vals) ELSE t.dtypes[j]]]
    ELSE [cols |-> Append(t.cols, name),
          dtypes |-> Append(t.dtypes, DtypeOf(vals)),
          rows |-> [i \in 1..NRows(t) |-> Append(t.rows[i], vals[i])]]

(***************************************************************************)
(* create_calculated_fields                                                *)
(***************************************************************************)
RECURSIVE CalculateAllUntilFailure(_, _, _)
\* a faulty variant: the first formula that raises ends the loop
CalculateAllUntilFailure(t, calculations, i) ==
    IF i > Len(calculations) THEN [df |-> t, made |-> 0, warned |-> <<>>]
    ELSE LET e == Eval(t, calculations[i][2])
             rest == CalculateAllUntilFailure(AssignColumn(t, calculations[i][1], e.vals),
                                              calculations, i + 1)
         IN  IF ~e.ok THEN [df |-> t, made |-> 0, warned |-> <<calculations[i][1]>>]
             ELSE [df |-> rest.df, made |-> rest.made + 1, warned |-> rest.warned]

RECURSIVE CalculateAll(_, _, _)
\* the loop over calculations.items(): [df, made, warned]
CalculateAll(t, calculations, i) ==
    IF i > Len(calculations) THEN [df |-> t, made |-> 0, warned |-> <<>>]
    ELSE LET e == Eval(t, calculations[i][2])
             u == IF e.ok THEN AssignColumn(t, calculations[i][1], e.vals) ELSE t
             rest == CalculateAll(u, calculations, i + 1)
         IN  [df |-> rest.df, made |-> rest.made + (IF e.ok THEN 1 ELSE 0),
              warned |-> (IF e.ok THEN <<>> ELSE <<calculations[i][1]>>) \o rest.warned]

CreateCalculatedFields(t, calculations, log, clock) ==
    LET r == CalculateAll(t, calculations, 1)
    IN  [Returned(r.df,
            IF r.made > 0
            THEN LogTransformation(log, clock, "Calculated Fields Creation", <<r.made>>)
            ELSE log) EXCEPT !.warned = r.warned]

(***************************************************************************)
(* apply_business_rules                                                    *)
(***************************************************************************)
StartsWith(s, p) == Len(p) <= Len(s) /\ SubSeq(s, 1, Len(p)) = p

RECURSIVE RemoveAll(_, _)
\* s.replace(p, ''): every occurrence of p, left to right
RemoveAll(s, p) ==
    IF s = <<>> THEN <<>>
    ELSE IF StartsWith(s, p) THEN RemoveAll(SubSeq(s, Len(p) + 1, Len(s)), p)
    ELSE <<s[1]>> \o RemoveAll(Tail(s), p)

RECURSIVE SplitOn(_, _)
\* s.split(ch)
SplitOn(s, ch) ==
    IF \A i \in DOMAIN s : s[i] # ch THEN <<s>>
    ELSE LET at == CHOOSE i \in DOMAIN s : s[i] = ch /\ \A h \in 1..(i - 1) : s[h] # ch
         IN  <<SubSeq(s, 1, at - 1)>> \o SplitOn(SubSeq(s, at + 1, Len(s)), ch)

SetPrefix == <<"s","e","t","_">>

\* df.loc[mask, column] = value
AssignMasked(t, mask, name, value) ==
    LET old(i, j) == IF mask[i].n = 1 THEN value ELSE t.rows[i][j]
        hit == \E i \in 1..NRows(t) : mask[i].n = 1
    IN  IF Positions(t, name) # {}
        THEN [t EXCEPT
                !.rows = [i \in 1..NRows(t) |->
                            [j \in 1..NCols(t) |->
                                IF j \in Positions(t, name) THEN old(i, j) ELSE t.rows[i][j]]],
                !.dtypes = [j \in 1..NCols(t) |->
                                IF j \in Positions(t, name) /\ hit THEN "object"
                                ELSE t.dtypes[j]]]
        ELSE [cols |-> Append(t.cols, name),
              dtypes |-> Append(t.dtypes, "object"),
              rows |-> [i \in 1..NRows(t) |->
                          Append(t.rows[i], IF mask[i].n = 1 THEN value ELSE NA)]]

\* a faulty variant: the matching rows are the ones kept
DropMaskedKeepsMatching(t, mask) ==
    TakeRows(t, SelectIdx([i \in 1..NRows(t) |-> mask[i].n = 1], 1, NRows(t)))

\* df[~mask]
DropMasked(t, mask) ==
    TakeRows(t, SelectIdx([i \in 1..NRows(t) |-> mask[i].n = 0], 1, NRows(t)))

\* one rule: [ok, df, applied, rebinds]; ok = FALSE when the rule raised
ApplyRule(t, rule) ==
    LET m == Eval(t, rule.condition)
        isMask == \A i \in DOMAIN m.vals : m.vals[i].k = "bool"
        parts == SplitOn(RemoveAll(rule.action, SetPrefix), "=")
    IN  IF rule.condition = NoFormula \/ rule.action = <<>>
        THEN [ok |-> TRUE, df |-> t, applied |-> FALSE, rebinds |-> FALSE]
        ELSE IF ~m.ok THEN [ok |-> FALSE, df |-> t, applied |-> FALSE, rebinds |-> FALSE]
        ELSE IF StartsWith(rule.action, SetPrefix)
             THEN IF Len(parts) # 2 \/ ~isMask
                  THEN [ok |-> FALSE, df |-> t, applied |-> FALSE, rebinds |-> FALSE]
                  ELSE [ok |-> TRUE, applied |-> TRUE, rebinds |-> FALSE,
                        df |-> AssignMasked(t, m.vals, Strip(parts[1], " "),
                                            Str(Strip(parts[2], " ")))]
        ELSE IF StartsWith(rule.action, KwDrop)
             THEN IF ~isMask THEN [ok |-> FALSE, df |-> t, applied |-> FALSE, rebinds |-> FALSE]
                  ELSE [ok |-> TRUE, applied |-> TRUE, rebinds |-> TRUE,
                        df |-> DropMasked(t, m.vals)]
        ELSE [ok |-> TRUE, df |-> t, applied |-> TRUE, rebinds |-> FALSE]

\* the loop after rule gave r: st = [df, made, inp, same, applied, warned], applied
\* the names in rules_applied, warned the names of the rules that raised
AfterRule(st, rule, r) ==
    [df |-> r.df, made |-> st.made + (IF r.applied THEN 1 ELSE 0),
     applied |-> st.applied \o (IF r.applied THEN <<rule.name>> ELSE <<>>),
     warned |-> st.warned \o (IF r.ok THEN <<>> ELSE <<rule.name>>),
     inp |-> IF st.same /\ ~r.rebinds THEN r.df ELSE st.inp,
     same |-> st.same /\ ~r.rebinds]

RECURSIVE ApplyRulesBackwards(_, _, _)
\* a faulty variant: the list is walked from its last rule to its first
ApplyRulesBackwards(st, rules, i) ==
    IF i > Len(rules) THEN st
    ELSE CHOOSE out \in
            {ApplyRulesBackwards(after, rules, i + 1) :
                after \in {AfterRule(st, rules[Len(rules) + 1 - i],
                                     ApplyRule(st.df, rules[Len(rules) + 1 - i]))}} : TRUE

RECURSIVE ApplyRules(_, _, _)
\* the loop over rules; a rule that raises is logged and skipped
ApplyRules(st, rules, i) ==
    IF i > Len(rules) THEN st
    ELSE CHOOSE out \in
            {ApplyRules(after, rules, i + 1) :
                after \in {AfterRule(st, rules[i], ApplyRule(st.df, rules[i]))}} : TRUE

ApplyBusinessRules(t, rules, log, clock) ==
    LET r == CHOOSE out \in
                {ApplyRules([df |-> t, made |-> 0, inp |-> t, same |-> TRUE,
                             applied |-> <<>>, warned |-> <<>>], rules, 1)} : TRUE
    IN  [ok |-> TRUE, df |-> r.df, inp |-> r.inp, same |-> r.same, warned |-> r.warned,
         log |-> IF r.made > 0
                 THEN LogTransformation(log, clock, "Business Rules Application",
                                        <<r.made, r.applied>>)
                 ELSE log]

(***************************************************************************)
(* calculate_kpis                                                          *)
(***************************************************************************)
\* Series.cumsum(): the running sum, missing cells skipped and left missing
CumSum(vals) ==
    LET S[i \in 0..Len(vals)] ==
            IF i = 0 THEN Num(0)
            ELSE IF IsNA(vals[i]) THEN S[i - 1] ELSE RatAdd(S[i - 1], vals[i])
    IN  [i \in DOMAIN vals |-> IF IsNA(vals[i]) THEN NA ELSE S[i]]

NoColumn == <<>>

\* the order of two keys under sort_values: numbers ascending, missing last
KeyLess(a, b) ==
    IF IsNA(a) THEN FALSE
    ELSE IF IsNA(b) THEN TRUE
    ELSE a.n * b.d < b.n * a.d

KeyEqual(a, b) == ~KeyLess(a, b) /\ ~KeyLess(b, a)

\* df.sort_values(column): the default kind is 'quicksort', which leaves rows of
\* equal key in an unspecified order; rank is the order among equal keys that
\* the sort of the build produces (row i comes before row h when rank[i] < rank[h]);
\* rows with a missing key are appended at the end in their original order
SortValues(t, j, rank) ==
    LET n == NRows(t)
        before(i, h) ==
            \/ KeyLess(t.rows[i][j], t.rows[h][j])
            \/ /\ KeyEqual(t.rows[i][j], t.rows[h][j])
               /\ IF IsNA(t.rows[i][j]) THEN i < h ELSE rank[i] < rank[h]
        place(i) == Cardinality({h \in 1..n : before(h, i)}) + 1
    IN  TakeRows(t, [p \in 1..n |-> CHOOSE i \in 1..n : place(i) = p])

\* Series.pct_change() * 100: missing cells are first filled forward
\* (fill_method='pad'), then each cell is compared with the one before it
PctChange(vals) ==
    LET padded == FFill(vals)
        change(c, q) ==
            IF IsNA(c) \/ IsNA(q) THEN NA
            ELSE IF q.n = 0
                 THEN IF c.n = 0 THEN NA ELSE Inf(IF c.n > 0 THEN 1 ELSE -1)
            ELSE Rat((c.n * q.d - q.n * c.d) * 100 * (IF q.n < 0 THEN -1 ELSE 1),
                     c.d * Abs(q.n))
    IN  [i \in DOMAIN vals |-> IF i = 1 THEN NA ELSE change(padded[i], padded[i - 1])]

\* the growth KPI: [df, made, failed, rebinds]
CalculateGrowth(t, name, kpi) ==
    LET base == Get(kpi, "base_column", NoColumn)
        period == Get(kpi, "period_column", NoColumn)
        by == CHOOSE j \in Positions(t, period) : TRUE
        sorted == SortValues(t, by, kpi.tie_order)
        from == CHOOSE j \in Positions(sorted, base) : TRUE
        vals == Column(sorted, from)
    IN  IF base = NoColumn \/ period = NoColumn
        THEN [df |-> t, made |-> 0, failed |-> FALSE, rebinds |-> FALSE]
        ELSE IF Cardinality(Positions(t, period)) # 1
                \/ \E i \in 1..NRows(t) : t.rows[i][by].k \notin {"num", "na"}
        THEN [df |-> t, made |-> 0, failed |-> TRUE, rebinds |-> FALSE]
        \* the table is sorted by now, whatever happens to the KPI
        ELSE IF Cardinality(Positions(t, base)) # 1
                \/ \E i \in DOMAIN vals : vals[i].k \notin {"num", "na"}
        THEN [df |-> sorted, made |-> 0, failed |-> TRUE, rebinds |-> TRUE]
        ELSE [df |-> AssignColumn(sorted, name, PctChange(vals)), made |-> 1,
              failed |-> FALSE, rebinds |-> TRUE]

\* one KPI: [df, made, failed, rebinds]; failed when the KPI raised, which is
\* logged as a warning
CalculateKpi(t, name, kpi) ==
    LET kind == Get(kpi, "type", "simple")
        formula == Get(kpi, "formula", NoFormula)
        base == Get(kpi, "base_column", NoColumn)
        numerator == Get(kpi, "numerator", NoColumn)
        denominator == Get(kpi, "denominator", NoColumn)
        skip == [df |-> t, made |-> 0, failed |-> FALSE, rebinds |-> FALSE]
        done(e) == IF e.ok
                   THEN [df |-> AssignColumn(t, name, e.vals), made |-> 1,
                         failed |-> FALSE, rebinds |-> FALSE]
                   ELSE [df |-> t, made |-> 0, failed |-> TRUE, rebinds |-> FALSE]
        cum == Eval(t, Formula("id", ColRef(base), Lit(NA)))
    IN  CASE kind = "simple" -> IF formula = NoFormula THEN skip ELSE done(Eval(t, formula))
          [] kind = "growth" -> CalculateGrowth(t, name, kpi)
          [] kind = "ratio" ->
               IF numerator = NoColumn \/ denominator = NoColumn THEN skip
               ELSE done(Eval(t, Formula("/", ColRef(numerator), ColRef(denominator))))
          [] kind = "cumulative" ->
               IF base = NoColumn THEN skip
               ELSE IF ~cum.ok \/ \E i \in DOMAIN cum.vals : cum.vals[i].k = "str"
                    THEN done([ok |-> FALSE, vals |-> <<>>])
               ELSE done([ok |-> TRUE, vals |-> CumSum(cum.vals)])
          [] OTHER -> skip

\* a faulty variant: a KPI that raised is dropped without a warning
AfterKpiSilent(st, name, r) ==
    [df |-> r.df, made |-> st.made + r.made,
     warned |-> st.warned,
     inp |-> IF st.same /\ ~r.rebinds THEN r.df ELSE st.inp,
     same |-> st.same /\ ~r.rebinds]

\* the loop after the KPI name gave r: st = [df, made, inp, same, warned]
AfterKpi(st, name, r) ==
    [df |-> r.df, made |-> st.made + r.made,
     warned |-> st.warned \o (IF r.failed THEN <<name>> ELSE <<>>),
     inp |-> IF st.same /\ ~r.rebinds THEN r.df ELSE st.inp,
     same |-> st.same /\ ~r.rebinds]

RECURSIVE CalculateAllKpis(_, _, _)
\* the loop over kpi_config.items()
CalculateAllKpis(st, kpis, i) ==
    IF i > Len(kpis) THEN st
    ELSE CHOOSE out \in
            {CalculateAllKpis(after, kpis, i + 1) :
                after \in {AfterKpi(st, kpis[i][1],
                                    CalculateKpi(st.df, kpis[i][1], kpis[i][2]))}} : TRUE

CalculateKpis(t, kpis, log, clock) ==
    LET r == CHOOSE out \in
                {CalculateAllKpis([df |-> t, made |-> 0, inp |-> t, same |-> TRUE,
                                   warned |-> <<>>], kpis, 1)} : TRUE
    IN  [ok |-> TRUE, df |-> r.df, inp |-> r.inp, same |-> r.same, warned |-> r.warned,
         log |-> IF r.made > 0
                 THEN LogTransformation(log, clock, "KPI Calculation", <<r.made>>)
                 ELSE log]

(***************************************************************************)
(* transform_data                                                          *)
(***************************************************************************)
\* a faulty variant: duplicates are removed before missing values are resolved
StepOrderSwapped ==
    <<"standardize", "duplicates", "missing", "types", "calculated", "rules", "kpis">>

\* the steps, in the order the body of transform_data calls them
StepOrder ==
    <<"standardize", "missing", "duplicates", "types", "calculated", "rules", "kpis">>

\* the condition under which transform_data calls the step
StepEnabled(step, cfg) ==
    CASE step = "standardize" -> Get(cfg, "standardize_columns", TRUE)
      [] step = "missing" -> Get(cfg, "handle_missing", TRUE)
      [] step = "duplicates" -> Get(cfg, "remove_duplicates", TRUE)
      [] step = "types" -> Get(cfg, "convert_types", TRUE)
      [] step = "calculated" -> Get(cfg, "calculations", <<>>) # <<>>
      [] step = "rules" -> Get(cfg, "business_rules", <<>>) # <<>>
      [] OTHER -> Get(cfg, "kpi_config", <<>>) # <<>>

RunStep(step, t, cfg, log, clock) ==
    CASE step = "standardize" -> StandardizeColumnNames(t, log, clock)
      [] step = "missing" ->
            HandleMissingValues(t, Get(cfg, "missing_strategy", EmptyDict), log, clock)
      [] step = "duplicates" ->
            RemoveDuplicates(t, Get(cfg, "duplicate_subset", NoSubset), "first", log, clock)
      [] step = "types" -> ConvertDataTypes(t, Get(cfg, "type_mapping", <<>>), log, clock)
      [] step = "calculated" ->
            CreateCalculatedFields(t, Get(cfg, "calculations", <<>>), log, clock)
      [] step = "rules" ->
            ApplyBusinessRules(t, Get(cfg, "business_rules", <<>>), log, clock)
      [] OTHER -> CalculateKpis(t, Get(cfg, "kpi_config", <<>>), log, clock)

\* the state of a transform_data call after the step gave r
AfterStep(st, step, r) ==
    [ok |-> r.ok, df |-> r.df, log |-> r.log, ran |-> Append(st.ran, step),
     warned |-> st.warned \o r.warned,
     inp |-> IF st.same THEN r.inp ELSE st.inp,
     same |-> st.same /\ r.same]

RECURSIVE RunSteps(_, _, _, _, _)
\* the steps order[i..] on st = [ok, df, log, ran, warned, inp, same]; a step that raises ends the call
RunSteps(order, i, st, cfg, clock) ==
    IF i > Len(order) THEN st
    ELSE IF ~StepEnabled(order[i], cfg) THEN RunSteps(order, i + 1, st, cfg, clock)
    ELSE CHOOSE out \in
            {IF after.ok THEN RunSteps(order, i + 1, after, cfg, clock) ELSE after :
                after \in {AfterStep(st, order[i],
                                     RunStep(order[i], st.df, cfg, st.log, clock))}} : TRUE

\* the last line of transform_data: the entry of the whole pipeline
CompleteTransformation(t, r, clock) ==
    IF r.ok
    THEN [r EXCEPT !.log = LogTransformation(r.log, clock,
                               "Complete Transformation Pipeline",
                               <<NRows(t), NCols(t), NRows(r.df), NCols(r.df)>>)]
    ELSE r

TransformData(t, cfg, log, clock) ==
    CHOOSE out \in
        {CompleteTransformation(t, r, clock) :
            r \in {RunSteps(StepOrder, 1,
                            [ok |-> TRUE, df |-> t, log |-> log, ran |-> <<>>,
                             warned |-> <<>>, inp |-> t, same |-> TRUE],
                            cfg, clock)}} : TRUE

\* get_transformation_summary(): a DataFrame of the log entries
GetTransformationSummary(log) == log

(***************************************************************************)
(* Inputs of the transformer.                                              *)
(***************************************************************************)
ColA == <<"a">>
ColB == <<"b">>
ColC == <<"c">>
ColZ == <<"z","z">>
TextX == <<"x">>
TextK == <<"K">>

NumCells == {NA, Num(1), Num(2)}
StrCells == {NA, Str(TextX)}

\* a column as read from a file: numeric, or text with missing cells
ColumnsOfLen(r) ==
    {[vals |-> v, dtype |-> "float64"] : v \in [1..r -> NumCells]}
    \cup {[vals |-> v, dtype |-> "object"] :
            v \in {w \in [1..r -> StrCells] : \E i \in 1..r : w[i].k = "str"}}

TablesOfLen(names, r) ==
    {[cols |-> names, dtypes |-> <<c1.dtype, c2.dtype>>,
      rows |-> [i \in 1..r |-> <<c1.vals[i], c2.vals[i]>>]] :
        c1 \in ColumnsOfLen(r), c2 \in ColumnsOfLen(r)}

\* the tables handed to handle_missing_values
MTables == UNION {TablesOfLen(<<ColA, ColB>>, r) : r \in 0..MaxRows}

\* the values of a missing_strategy entry: the keywords, and constants (a text, a
\* number, NaN)
Methods ==
    {Str(KwDrop), Str(KwFill), Str(KwForward), Str(KwBackward), Str(TextK), Num(0), NA}

Strategies ==
    UNION {[keys -> Methods] : keys \in SUBSET {ColA, ColB}}

MConfigs == {[missing_strategy |-> st] : st \in Strategies}

NoSummary ==
    [input_files_processed |-> 0, total_rows_processed |-> 0, total_columns |-> 0,
     output_files_generated |-> 0]

\* no call has returned
NoResult ==
    [status |-> "none", error |-> "", output_files |-> EmptyDict, data_summary |-> NoSummary]

\* a DataTransformer used on its own: no ReportGenerator is at work
OrchestratorIdle ==
    /\ pc = "idle" /\ config = EmptyDict /\ config0 = EmptyDict /\ kwargs = EmptyDict
    /\ pipeline_results = EmptyDict /\ result = NoResult /\ now = 0
    /\ phases = <<>> /\ completed = {} /\ exc = "" /\ env = EmptyDict

\* DataTransformer.__init__: an empty log
TransformerInit(tables, configs) ==
    /\ df \in tables /\ prev = df /\ tcfg \in configs
    /\ transformation_log = <<>>
    /\ lastop = [op |-> "init", ok |-> TRUE] /\ ran = <<>> /\ calls = 0
    /\ warnings = <<>>

(***************************************************************************)
(* Calls on a DataTransformer.  r is what the operation gave: a raise      *)
(* leaves the caller with the table it had.                                *)
(***************************************************************************)
Called(op, r, steps) ==
    /\ calls < MaxCalls
    /\ calls' = calls + 1
    /\ prev' = df
    /\ df' = IF r.ok THEN r.df ELSE df
    /\ transformation_log' = r.log
    /\ lastop' = [op |-> op, ok |-> r.ok]
    /\ ran' = steps
    /\ warnings' = r.warned
    /\ UNCHANGED <<tcfg, pc, config, config0, kwargs, pipeline_results, result, now,
                   phases, completed, exc, env>>

HandleMissingValuesCall ==
    Called("handle_missing_values",
           HandleMissingValues(df, Get(tcfg, "missing_strategy", EmptyDict),
                               transformation_log, calls + 1), <<>>)

MInit == TransformerInit(MTables, MConfigs) /\ OrchestratorIdle
MNext == HandleMissingValuesCall
SpecM == MInit /\ [][MNext]_vars

(***************************************************************************)
(* The transformer under every sequence of calls (SpecT).                  *)
(***************************************************************************)
ColK == <<"k">>
HeaderSpaced == <<"A"," ">>
HeaderUpper == <<"A">>

\* headers as found in files: the first two standardize to a and b, the last
\* two collide on a
Headers == {<<HeaderSpaced, ColB>>, <<ColA, HeaderUpper>>}

TRowSet == {<<Num(2), Str(TextX)>>, <<NA, NA>>}

TTables ==
    {[cols |-> h,
      dtypes |-> <<"float64",
                   IF \E i \in DOMAIN rows : rows[i][2].k = "str" THEN "object" ELSE "float64">>,
      rows |-> rows] :
        h \in Headers, rows \in UNION {[1..r -> TRowSet] : r \in 0..MaxRows}}

TypeMappings ==
    {<<>>, <<<<ColA, "numeric">>>>, <<<<ColZ, "numeric">>>>,
     <<<<ColB, "int64">>, <<ColA, "category">>>>}

AddOne(name) == Formula("+", ColRef(name), Lit(Num(1)))
Calculations ==
    {<<<<ColC, AddOne(ColA)>>>>, <<<<ColC, AddOne(ColZ)>>>>,
     <<<<ColC, AddOne(ColZ)>>, <<ColK, AddOne(ColA)>>>>}

Rule(name, condition, action) == [name |-> name, condition |-> condition, action |-> action]
Above(name, i) == Formula(">", ColRef(name), Lit(Num(i)))
SetBEqK == <<"s","e","t","_","b","=","K">>
RuleLists ==
    {<<Rule("drop_big", Above(ColA, 1), KwDrop)>>,
     <<Rule("unparseable", BadSyntax, KwDrop)>>,
     <<Rule("no_column", Above(ColZ, 1), KwDrop), Rule("mark", Above(ColA, 1), SetBEqK)>>}

SimpleKpi(f) == [type |-> "simple", formula |-> f]
KpiConfigs ==
    {<<<<ColK, SimpleKpi(AddOne(ColA))>>>>, <<<<ColK, SimpleKpi(AddOne(ColZ))>>>>,
     <<<<ColK, [type |-> "cumulative", base_column |-> ColA]>>>>,
     <<<<ColK, [type |-> "ratio", numerator |-> ColA, denominator |-> ColA]>>>>}

FlagKeys == {"standardize_columns", "handle_missing", "remove_duplicates", "convert_types"}

\* every combination of enabled steps, each step with something to do
FlagConfigs ==
    {Updated(Updated(flags, [type_mapping |-> <<<<ColA, "numeric">>>>]),
             [key \in items |->
                 CASE key = "calculations" -> <<<<ColC, AddOne(ColA)>>>>
                   [] key = "business_rules" -> <<Rule("drop_big", Above(ColA, 1), KwDrop)>>
                   [] OTHER -> <<<<ColK, SimpleKpi(AddOne(ColA))>>>>]) :
        flags \in [FlagKeys -> BOOLEAN],
        items \in SUBSET {"calculations", "business_rules", "kpi_config"}}

\* the default flags with one section given
ItemConfigs ==
    {[type_mapping |-> x] : x \in TypeMappings}
    \cup {[calculations |-> x] : x \in Calculations}
    \cup {[business_rules |-> x] : x \in RuleLists}
    \cup {[kpi_config |-> x] : x \in KpiConfigs}
    \cup {[missing_strategy |-> (ColA :> x)] : x \in {Str(KwDrop), Str(KwForward)}}
    \cup {[duplicate_subset |-> x] : x \in {Subset(<<ColA>>), Subset(<<ColZ>>)}}

TConfigs == FlagConfigs \cup ItemConfigs

StandardizeColumnNamesCall ==
    Called("standardize_column_names",
           StandardizeColumnNames(df, transformation_log, calls + 1), <<>>)

RemoveDuplicatesCall ==
    \E keep \in {"first", "last"} :
        Called("remove_duplicates",
               RemoveDuplicates(df, Get(tcfg, "duplicate_subset", NoSubset), keep,
                                transformation_log, calls + 1), <<>>)

ConvertDataTypesCall ==
    Called("convert_data_types",
           ConvertDataTypes(df, Get(tcfg, "type_mapping", <<>>),
                            transformation_log, calls + 1), <<>>)

CreateCalculatedFieldsCall ==
    Called("create_calculated_fields",
           CreateCalculatedFields(df, Get(tcfg, "calculations", <<>>),
                                  transformation_log, calls + 1), <<>>)

ApplyBusinessRulesCall ==
    Called("apply_business_rules",
           ApplyBusinessRules(df, Get(tcfg, "business_rules", <<>>),
                              transformation_log, calls + 1), <<>>)

CalculateKpisCall ==
    Called("calculate_kpis",
           CalculateKpis(df, Get(tcfg, "kpi_config", <<>>),
                         transformation_log, calls + 1), <<>>)

TransformDataCall ==
    \E r \in {TransformData(df, tcfg, transformation_log, calls + 1)} :
        Called("transform_data", r, r.ran)

GetTransformationSummaryCall ==
    Called("get_transformation_summary",
           Returned(df, transformation_log), <<>>)

\* transform_data under every configuration, and reads of the summary
TInit == TransformerInit(TTables, TConfigs) /\ OrchestratorIdle
TNext ==
    \/ TransformDataCall
    \/ GetTransformationSummaryCall
SpecT == TInit /\ [][TNext]_vars

\* every sequence of the public operations of one DataTransformer
LConfigs == ItemConfigs \cup {EmptyDict}
LInit == TransformerInit(TTables, LConfigs) /\ OrchestratorIdle
LNext ==
    \/ StandardizeColumnNamesCall
    \/ HandleMissingValuesCall
    \/ RemoveDuplicatesCall
    \/ ConvertDataTypesCall
    \/ CreateCalculatedFieldsCall
    \/ ApplyBusinessRulesCall
    \/ CalculateKpisCall
    \/ TransformDataCall
    \/ GetTransformationSummaryCall
SpecL == LInit /\ [][LNext]_vars

(***************************************************************************)
(* Claims about transform_data (SpecT) and the provenance log (SpecL).     *)
(***************************************************************************)
Transformed == lastop.op = "transform_data"

\* the order the specification gives the steps
RankOf(step) ==
    CASE step = "standardize" -> 1 [] step = "missing" -> 2 [] step = "duplicates" -> 3
      [] step = "types" -> 4 [] step = "calculated" -> 5 [] step = "rules" -> 6
      [] OTHER -> 7

EnabledSteps == {step \in Range(StepOrder) : StepEnabled(step, tcfg)}

\* C3: transform_data runs the enabled steps, and only those, in the order
\* standardize names, resolve missing, remove duplicates, convert types,
\* calculated fields, business rules, KPI computation, whatever the configuration.
C3_FixedStepOrder ==
    Transformed =>
        /\ \A i, j \in DOMAIN ran : i < j => RankOf(ran[i]) < RankOf(ran[j])
        /\ Range(ran) \subseteq EnabledSteps
        /\ lastop.ok => Range(ran) = EnabledSteps

\* C3 witness: a call with steps disabled in between ran the others in order.
C3_Witness ==
    /\ Transformed /\ lastop.ok
    /\ ran = <<"missing", "types", "kpis">>

\* the entries the last call appended, but the closing entry of transform_data
StepEntries ==
    SelectSeq(transformation_log,
              LAMBDA e : e.timestamp = calls
                         /\ e.operation # "Complete Transformation Pipeline")

EntriesOf(operation) == Len(SelectSeq(StepEntries, LAMBDA e : e.operation = operation))

C8_LogAppendOnly ==
    /\ transformation_log = <<>>
    /\ [][IsPrefix(transformation_log, transformation_log')]_vars

\* C8 witness: a summary read that left a log of several entries as it was.
C8_Witness ==
    /\ lastop.op = "get_transformation_summary"
    /\ Len(transformation_log) >= 2

(***************************************************************************)
(* Claims about handle_missing_values (checked under SpecM).               *)
(***************************************************************************)
MissingHandled == lastop = [op |-> "handle_missing_values", ok |-> TRUE]
StrategyOf(name) == Get(Get(tcfg, "missing_strategy", EmptyDict), name, Str(KwFill))
HasNA(t, j) == \E i \in 1..NRows(t) : IsNA(t.rows[i][j])
AllNA(t, j) == \A i \in 1..NRows(t) : IsNA(t.rows[i][j])

\* C9 as stated: after handle_missing_values no column holds a missing marker
\* (a column either was filled, or the rows missing in it were dropped).
C9_NoMissingLeft ==
    MissingHandled => \A j \in 1..NCols(df) : ~HasNA(df, j)

\* C9, amended: after handle_missing_values a column holds no missing marker,
\* except that forward (backward) leaves missing exactly the cells with no
\* non-missing value before (after) them in the column, that the mean fill
\* (strategy 'fill' or default, numeric column) leaves a column without any
\* non-missing value entirely missing, and that a constant that is itself the
\* missing marker fills nothing; drop and any other constant leave none.
C9_MissingResolved ==
    MissingHandled =>
        \A j \in 1..NCols(df) :
            \/ ~HasNA(df, j)
            \/ /\ StrategyOf(df.cols[j]) = Str(KwForward)
               /\ \A i \in 1..NRows(df) :
                     IsNA(df.rows[i][j]) <=> \A h \in 1..i : IsNA(df.rows[h][j])
            \/ /\ StrategyOf(df.cols[j]) = Str(KwBackward)
               /\ \A i \in 1..NRows(df) :
                     IsNA(df.rows[i][j]) <=> \A h \in i..NRows(df) : IsNA(df.rows[h][j])
            \/ /\ StrategyOf(df.cols[j]) = Str(KwFill)
               /\ IsNumericDtype(df.dtypes[j])
               /\ AllNA(df, j)
            \/ IsNA(StrategyOf(df.cols[j]))

\* C9 witness: a forward fill left a leading missing cell, while another
\* column that had missing cells has none left.
C9_Witness ==
    /\ MissingHandled
    /\ \E j \in 1..NCols(df) :
          /\ StrategyOf(df.cols[j]) = Str(KwForward)
          /\ NRows(df) = 2 /\ IsNA(df.rows[1][j]) /\ ~IsNA(df.rows[2][j])
    /\ \E j \in 1..NCols(df) : HasNA(prev, j) /\ ~HasNA(df, j)

\* the strategy map is {name: v} for a constant v that is neither a strategy
\* keyword nor the missing marker
OnlyConstantFor(name) ==
    /\ DOMAIN Get(tcfg, "missing_strategy", EmptyDict) = {name}
    /\ StrategyOf(name) \notin {Str(KwDrop), Str(KwFill), Str(KwForward), Str(KwBackward), NA}

\* C10 as stated: with strategy map {c: v}, column c has no missing marker left
\* and every other column is unmodified.
C10_OthersUnmodified ==
    \A c \in {ColA, ColB} :
        MissingHandled /\ OnlyConstantFor(c) =>
            /\ NRows(df) = NRows(prev)
            /\ \A j \in 1..NCols(df) :
                  IF df.cols[j] = c THEN ~HasNA(df, j)
                  ELSE Column(df, j) = Column(prev, j)

\* C10, amended: with strategy map {c: v}, v a constant that is neither missing
\* nor a strategy keyword, column c has no missing marker left (its missing cells
\* hold v), no row is added or removed and no non-missing cell of any column
\* changes; the missing cells of the other columns get the default fill (the
\* column mean, which is missing when the column has no value, or 'Unknown'), so
\* another column is unmodified when it has no missing cell.
C10_ConstantFill ==
    \A c \in {ColA, ColB} :
        MissingHandled /\ OnlyConstantFor(c) =>
            /\ NRows(df) = NRows(prev)
            /\ \A j \in 1..NCols(df) : \A i \in 1..NRows(df) :
                  /\ ~IsNA(prev.rows[i][j]) => df.rows[i][j] = prev.rows[i][j]
                  /\ df.cols[j] = c /\ IsNA(prev.rows[i][j]) =>
                        df.rows[i][j] = StrategyOf(c)
                  /\ df.cols[j] # c /\ IsNA(prev.rows[i][j]) =>
                        df.rows[i][j] =
                            IF IsNumericDtype(prev.dtypes[j])
                            THEN Mean(Column(prev, j)) ELSE Str(Unknown)

\* C10 witness: the constant filled a missing cell of column a, and column b,
\* which had a missing cell and a value, was filled by the default.
C10_Witness ==
    /\ MissingHandled /\ OnlyConstantFor(ColA)
    /\ HasNA(prev, 1) /\ ~HasNA(df, 1)
    /\ HasNA(prev, 2) /\ ~AllNA(prev, 2) /\ ~HasNA(df, 2)

(***************************************************************************)
(* DataExtractor.  The input directory is a sequence of files in sorted    *)
(* order; a file has a name, an extension, is readable or not, and holds a *)
(* table.  A glob pattern is the text "*." followed by an extension; the   *)
(* empty pattern is one Path.glob rejects.                                 *)
(***************************************************************************)
EmptyFrame == [cols |-> <<>>, dtypes |-> <<>>, rows |-> <<>>]

\* DataFrame.empty
IsEmpty(t) == NRows(t) = 0 \/ NCols(t) = 0

DefaultPatterns == <<"*.xlsx", "*.xls", "*.csv">>

Matches(pattern, file) == pattern = "*." \o file.ext

\* discover_files: [ok, files]; Path.glob raises ValueError on an empty pattern
DiscoverFiles(files, patterns) ==
    IF \E i \in DOMAIN patterns : patterns[i] = ""
    THEN [ok |-> FALSE, files |-> <<>>]
    ELSE [ok |-> TRUE,
          files |-> SelectSeq(files,
                        LAMBDA f : \E i \in DOMAIN patterns : Matches(patterns[i], f))]

SourceFile == <<"s","o","u","r","c","e","_","f","i","l","e">>
SourcePath == <<"s","o","u","r","c","e","_","p","a","t","h">>

\* df['source_file'] = file_path.name; df['source_path'] = str(file_path)
AddSourceColumns(t, file) ==
    [cols |-> t.cols \o <<SourceFile, SourcePath>>,
     dtypes |-> t.dtypes \o <<"object", "object">>,
     rows |-> [i \in 1..NRows(t) |->
                 t.rows[i] \o <<Str(file.name), Str(<<"/">> \o file.name)>>]]

\* read_single_file raises ValueError on any other extension
SupportedExtensions == {"xlsx", "xls", "csv"}

\* a faulty variant: the loop ends at the first file that cannot be read
ReadFilesUntilFailure(files, add_source_column) ==
    LET good(f) == f.readable /\ f.ext \in SupportedExtensions
        upto == IF \A i \in DOMAIN files : good(files[i]) THEN Len(files)
                ELSE (CHOOSE i \in DOMAIN files :
                         ~good(files[i]) /\ \A h \in 1..(i - 1) : good(files[h])) - 1
    IN  [i \in 1..upto |->
            IF add_source_column THEN AddSourceColumns(files[i].table, files[i])
            ELSE files[i].table]

\* the frames of the files that could be read, source columns added
ReadFiles(files, add_source_column) ==
    LET readable == SelectSeq(files, LAMBDA f : f.readable /\ f.ext \in SupportedExtensions)
    IN  [i \in 1..Len(readable) |->
            IF add_source_column THEN AddSourceColumns(readable[i].table, readable[i])
            ELSE readable[i].table]

RECURSIVE Concat(_)
\* pd.concat(frames, ignore_index=True, sort=False) of frames of one header
Concat(frames) ==
    IF Len(frames) = 1 THEN frames[1]
    ELSE LET rest == Concat(Tail(frames))
             first == frames[1]
         IN  [cols |-> first.cols,
              dtypes |-> [j \in 1..NCols(first) |->
                            IF first.dtypes[j] = rest.dtypes[j] \/ NRows(rest) = 0
                            THEN first.dtypes[j]
                            ELSE IF NRows(first) = 0 THEN rest.dtypes[j] ELSE "object"],
              rows |-> first.rows \o rest.rows]

\* extract_data: [ok, df]
ExtractData(files, patterns, add_source_column) ==
    LET found == DiscoverFiles(files, patterns)
        frames == ReadFiles(found.files, add_source_column)
    IN  IF ~found.ok THEN [ok |-> FALSE, df |-> EmptyFrame]
        ELSE IF found.files = <<>> \/ frames = <<>> THEN [ok |-> TRUE, df |-> EmptyFrame]
        ELSE [ok |-> TRUE, df |-> Concat(frames)]

(***************************************************************************)
(* DataLoader and the visualizations.  A path is the base filename and a   *)
(* suffix; the empty path is <<>>.  broken is the set of outputs the       *)
(* output device fails to write.                                           *)
(***************************************************************************)
FormatList(items) == [kind |-> "list", items |-> items]
NoFormats == [kind |-> "none", items |-> <<>>]
ScalarFormats == [kind |-> "scalar", items |-> <<>>]
DefaultFormats == FormatList(<<"csv", "excel_styled", "summary">>)

Suffix(format) ==
    CASE format = "csv" -> ".csv"
      [] format = "excel" -> ".xlsx"
      [] format = "excel_styled" -> "_styled.xlsx"
      [] format = "summary" -> "_summary.xlsx"
      [] format = "bar_chart" -> "_bar_chart.png"
      [] format = "heatmap" -> "_correlation_heatmap.png"
      [] format = "time_series" -> "_time_series.png"
      [] OTHER -> "_metadata.xlsx"

\* create_multi_format_report: a format that fails is logged and left out
CreateMultiFormatReport(formats, base, broken) ==
    LET items == IF formats.kind = "none" THEN DefaultFormats.items ELSE formats.items
        made == {f \in Range(items) \cap {"csv", "excel", "excel_styled", "summary"} :
                    f \notin broken}
    IN  [f \in made |-> <<base, Suffix(f)>>]

\* the charts _create_visualizations attempts on the table, in order
ChartsDue(t) ==
    LET numeric == {j \in 1..NCols(t) : IsNumericDtype(t.dtypes[j])}
        categorical == {j \in 1..NCols(t) :
                           /\ t.dtypes[j] \in {"object", "category"}
                           /\ t.cols[j] \notin {SourceFile, SourcePath}}
        dates == {j \in 1..NCols(t) : t.dtypes[j] = "datetime64"}
    IN  (IF categorical # {} /\ numeric # {} THEN <<"bar_chart">> ELSE <<>>)
        \o (IF Cardinality(numeric) > 1 THEN <<"heatmap">> ELSE <<>>)
        \o (IF dates # {} /\ numeric # {} THEN <<"time_series">> ELSE <<>>)

\* _create_visualizations: the first chart that fails ends the attempts
CreateVisualizations(t, base, broken) ==
    LET due == ChartsDue(t)
        made == {due[i] : i \in {h \in DOMAIN due : \A g \in 1..h : due[g] \notin broken}}
    IN  [c \in made |-> <<base, Suffix(c)>>]

\* _create_metadata_report: the path, "" when the report could not be written
CreateMetadataReport(base, broken) ==
    IF "metadata" \in broken THEN <<>> ELSE <<base, Suffix("metadata")>>

(***************************************************************************)
(* ReportGenerator.  Init is the state after __init__: the engines are     *)
(* constructed once, the configuration is the default one or the one read  *)
(* from the configuration file, pipeline_results is empty.                 *)
(***************************************************************************)
DefaultConfig ==
    [extraction |-> [file_patterns |-> DefaultPatterns, add_source_column |-> TRUE],
     transformation |->
        [standardize_columns |-> TRUE, handle_missing |-> TRUE,
         remove_duplicates |-> TRUE, convert_types |-> TRUE,
         type_mapping |-> <<>>, calculations |-> <<>>,
         business_rules |-> <<>>, kpi_config |-> <<>>],
     loading |-> [formats |-> DefaultFormats, create_visualizations |-> TRUE],
     reporting |-> [base_filename |-> "automated_report", include_metadata |-> TRUE]]

\* a configuration file replaces the default as a whole: this one has no
\* extraction and no loading section
FileConfig ==
    [transformation |-> [remove_duplicates |-> FALSE,
                         calculations |-> <<<<ColC, AddOne(ColA)>>>>],
     reporting |-> [base_filename |-> "report", include_metadata |-> FALSE]]

\* the config_file argument: none given, or a path that may not exist, with
\* content that may not parse
ConfigFile(given, exists, parses) == [given |-> given, exists |-> exists, parses |-> parses]

ConfigFiles ==
    {ConfigFile(FALSE, FALSE, FALSE), ConfigFile(TRUE, FALSE, FALSE),
     ConfigFile(TRUE, TRUE, FALSE), ConfigFile(TRUE, TRUE, TRUE)}

\* _load_config: the content of a file that exists and parses; the default
\* configuration in every other case, a failure to parse being logged
LoadConfig(file) ==
    IF file.given /\ file.exists /\ file.parses THEN FileConfig ELSE DefaultConfig

Configs == {LoadConfig(f) : f \in ConfigFiles}

\* the files of the input directory
File(name, ext, readable, rows) ==
    [name |-> name, ext |-> ext, readable |-> readable,
     table |-> [cols |-> <<ColA, ColB>>,
                dtypes |-> IF rows = <<>> THEN <<"object", "object">>
                           ELSE <<"float64", "object">>,
                rows |-> rows]]

FileOne == File(<<"f","1">>, "csv", TRUE, <<<<Num(2), Str(TextX)>>>>)
FileTwo == File(<<"f","2">>, "csv", TRUE, <<<<NA, Str(TextX)>>, <<Num(2), Str(TextX)>>>>)
FileBad == File(<<"f","0">>, "csv", FALSE, <<>>)
FileHeader == File(<<"f","3">>, "csv", TRUE, <<>>)
FileOther == File(<<"f","4">>, "txt", TRUE, <<<<Num(1), Str(TextX)>>>>)

Directories ==
    {<<>>, <<FileBad>>, <<FileHeader>>, <<FileOther>>, <<FileOne>>,
     <<FileBad, FileOne>>, <<FileOne, FileTwo>>}

BrokenOutputs == {{}, {"csv"}, {"bar_chart"}, {"metadata"}}

\* the keyword arguments of a run_complete_pipeline call
KwargsSet ==
    {EmptyDict,
     [extraction |-> [file_patterns |-> <<"*.txt">>]],
     [extraction |-> [file_patterns |-> <<"">>]],
     [transformation |-> [remove_duplicates |-> FALSE]],
     [transformation |-> [duplicate_subset |-> Subset(<<ColZ>>)]],
     [loading |-> [formats |-> FormatList(<<"csv">>)]],
     [loading |-> [formats |-> ScalarFormats]]}

NoDataMessage == "No data was extracted. Please check input files."

Init ==
    /\ env \in [files : Directories, broken : BrokenOutputs, config_file : ConfigFiles]
    /\ df = EmptyFrame /\ prev = EmptyFrame /\ tcfg = EmptyDict
    /\ transformation_log = <<>>
    /\ lastop = [op |-> "init", ok |-> TRUE] /\ ran = <<>> /\ calls = 0
    /\ warnings = <<>>
    /\ pc = "idle"
    /\ config = LoadConfig(env.config_file) /\ config0 = config /\ kwargs = EmptyDict
    /\ pipeline_results = EmptyDict
    /\ result = NoResult
    /\ now = 0
    /\ phases = <<>> /\ completed = {} /\ exc = ""

\* self.config after "section = self.config.get(name, {}); section.update(kw)":
\* the section of the configuration is the dict that is updated, a missing
\* section is a fresh dict that is dropped
ConfigAfterUpdate(cfg, name, kw) ==
    IF name \in DOMAIN cfg THEN [cfg EXCEPT ![name] = Updated(cfg[name], kw)] ELSE cfg

\* a faulty variant: a phase that raised is followed by the next phase
AfterPhaseGoesOn(phase, ok) ==
    CASE phase = "extracting" -> "transforming"
      [] phase = "transforming" -> "loading"
      [] OTHER -> "done"

\* the position of run_complete_pipeline after a phase returned (ok) or raised
AfterPhase(phase, ok) ==
    IF ~ok THEN "failed"
    ELSE CASE phase = "extracting" -> "transforming"
           [] phase = "transforming" -> "loading"
           [] OTHER -> "done"

\* the "except Exception" branch: the dictionary of a failed run
FailedResult(message) ==
    [status |-> "failed", error |-> message, output_files |-> EmptyDict,
     data_summary |-> NoSummary]

\* the phase ended: the call goes on with the next phase, or returns
Ends(phase, ok, message, success) ==
    /\ pc' = AfterPhase(phase, ok)
    /\ exc' = IF ok THEN "" ELSE message
    /\ phases' = IF ok /\ phase # "loading" THEN Append(phases, AfterPhase(phase, TRUE))
                 ELSE phases
    /\ result' = IF ~ok THEN FailedResult(message)
                 ELSE IF phase = "loading" THEN success ELSE result

\* a call of run_complete_pipeline(**kw) enters the try block
StartRun ==
    /\ pc \in {"idle", "done", "failed"}
    /\ now < MaxRuns
    /\ \E kw \in KwargsSet : kwargs' = kw
    /\ now' = now + 1
    /\ pc' = "extracting"
    /\ phases' = <<"extracting">>
    /\ completed' = {}
    /\ exc' = ""
    /\ config0' = config
    /\ result' = NoResult
    /\ UNCHANGED <<df, prev, tcfg, transformation_log, lastop, ran, calls, warnings,
                   config, pipeline_results, env>>

\* run_extraction, and the check of raw_data.empty
RunExtraction ==
    /\ pc = "extracting"
    /\ LET kw == Get(kwargs, "extraction", EmptyDict)
           extraction_config == Updated(Get(config, "extraction", EmptyDict), kw)
       IN  \E r \in {ExtractData(env.files,
                                 Get(extraction_config, "file_patterns", DefaultPatterns),
                                 Get(extraction_config, "add_source_column", TRUE))} :
              /\ config' = ConfigAfterUpdate(config, "extraction", kw)
              /\ df' = IF r.ok THEN r.df ELSE df
              /\ pipeline_results' =
                    IF r.ok
                    THEN Updated(pipeline_results,
                             [extraction |-> [data_shape |-> Shape(r.df),
                                              columns |-> r.df.cols,
                                              time |-> now]])
                    ELSE pipeline_results
              /\ completed' = IF r.ok THEN {"extraction"} ELSE {}
              /\ Ends("extracting", r.ok /\ ~IsEmpty(r.df),
                      IF r.ok THEN NoDataMessage ELSE "ValueError", NoResult)
    /\ UNCHANGED <<prev, tcfg, transformation_log, lastop, ran, calls, warnings,
                   config0, kwargs, now, env>>

\* run_transformation
RunTransformation ==
    /\ pc = "transforming"
    /\ LET kw == Get(kwargs, "transformation", EmptyDict)
           transformation_config == Updated(Get(config, "transformation", EmptyDict), kw)
       IN  \E r \in {TransformData(df, transformation_config, transformation_log, now)} :
              /\ config' = ConfigAfterUpdate(config, "transformation", kw)
              /\ tcfg' = transformation_config
              /\ prev' = df
              /\ df' = IF r.ok THEN r.df ELSE df
              /\ transformation_log' = r.log
              /\ lastop' = [op |-> "transform_data", ok |-> r.ok]
              /\ ran' = r.ran
              /\ warnings' = r.warned
              /\ pipeline_results' =
                    IF r.ok
                    THEN Updated(pipeline_results,
                             [transformation |->
                                 [original_shape |-> Shape(r.inp),
                                  transformed_shape |-> Shape(r.df),
                                  transformation_log |-> GetTransformationSummary(r.log),
                                  time |-> now]])
                    ELSE pipeline_results
              /\ completed' = IF r.ok THEN completed \cup {"transformation"} ELSE completed
              /\ Ends("transforming", r.ok, "KeyError", NoResult)
    /\ UNCHANGED <<calls, config0, kwargs, now, env>>

\* run_loading, the metadata report and the dictionary of a successful run
RunLoading ==
    /\ pc = "loading"
    /\ LET kw == Get(kwargs, "loading", EmptyDict)
           loading_config == Updated(Get(config, "loading", EmptyDict), kw)
           reporting_config == Get(config, "reporting", EmptyDict)
           base == Get(reporting_config, "base_filename", "automated_report")
           formats == Get(loading_config, "formats", DefaultFormats)
           ok == formats.kind # "scalar"    \* "for format_type in formats" raises TypeError
           reports == CreateMultiFormatReport(formats, base, env.broken)
           charts == IF Get(loading_config, "create_visualizations", TRUE)
                     THEN CreateVisualizations(df, base, env.broken) ELSE EmptyDict
           loaded == Updated(reports, charts)
           \* output_files['metadata'] = metadata_file, on the dict that
           \* pipeline_results['loading'] holds
           output_files ==
               IF Get(reporting_config, "include_metadata", TRUE)
               THEN Updated(loaded, [metadata |-> CreateMetadataReport(base, env.broken)])
               ELSE loaded
       IN  /\ config' = ConfigAfterUpdate(config, "loading", kw)
           /\ pipeline_results' =
                 IF ok
                 THEN Updated(pipeline_results,
                          [loading |-> [output_files |-> output_files, time |-> now]])
                 ELSE pipeline_results
           /\ completed' = IF ok THEN completed \cup {"loading"} ELSE completed
           /\ Ends("loading", ok, "TypeError",
                   [status |-> "success", error |-> "", output_files |-> output_files,
                    data_summary |->
                       [input_files_processed |->
                            Len(DiscoverFiles(env.files, DefaultPatterns).files),
                        total_rows_processed |-> NRows(df),
                        total_columns |-> NCols(df),
                        output_files_generated |-> Cardinality(DOMAIN output_files)]])
    /\ UNCHANGED <<df, prev, tcfg, transformation_log, lastop, ran, calls, warnings,
                   config0, kwargs, now, env>>

Next ==
    \/ StartRun
    \/ RunExtraction
    \/ RunTransformation
    \/ RunLoading

Spec == Init /\ [][Next]_vars

(***************************************************************************)
(* Claims about run_complete_pipeline (checked under Spec).                *)
(***************************************************************************)
PhaseOrder == <<"extracting", "transforming", "loading">>
CallReturned == pc \in {"done", "failed"}

\* C1: a run moves through extracting, transforming, loading in that order; a
\* phase starts only after the previous one completed and stored its result in
\* this run; a phase that fails starts no later phase and ends the run in failed
\* (status 'failed'); a run ends in done (status 'success') only after the three
\* phases completed.
C1_PhasesInOrder ==
    [][/\ IsPrefix(phases', PhaseOrder)
       /\ pc' = "extracting" => pc \in {"idle", "done", "failed"}
       /\ pc' = "transforming" =>
             /\ pc = "extracting"
             /\ "extraction" \in completed'
             /\ pipeline_results'["extraction"].time = now'
       /\ pc' = "loading" =>
             /\ pc = "transforming"
             /\ {"extraction", "transformation"} \subseteq completed'
             /\ pipeline_results'["transformation"].time = now'
       /\ pc' = "done" =>
             /\ pc = "loading"
             /\ phases' = PhaseOrder
             /\ completed' = {"extraction", "transformation", "loading"}
             /\ pipeline_results'["loading"].time = now'
             /\ result'.status = "success"
       /\ exc' # "" => pc' = "failed"
       /\ pc' = "failed" =>
             /\ pc \in {"extracting", "transforming", "loading"}
             /\ phases' = phases
             /\ phases'[Len(phases')] = pc
             /\ result'.status = "failed"
      ]_vars

\* C1 witness: a run whose transformation raised: loading was never started and
\* the run ended in failed, after the extraction had completed.
C1_Witness ==
    /\ pc = "failed" /\ result.status = "failed"
    /\ phases = <<"extracting", "transforming">>
    /\ completed = {"extraction"}

\* C2: a returned result has status 'success' or 'failed'; a failed result
\* carries the message of the error and pipeline_results holds the results of
\* exactly the phases that completed before the failure.
C2_FailedCarriesCompletedPhases ==
    CallReturned =>
        /\ result.status \in {"success", "failed"}
        /\ result.status = "failed" =>
              /\ result.error = exc /\ exc # ""
              /\ DOMAIN pipeline_results = completed

\* C4: when extraction gives a table with zero rows the run fails before
\* transformation: no later phase is started, the result has status 'failed' and
\* pipeline_results holds the extraction entry only.
C4_EmptyExtractionOnly ==
    /\ pc # "extracting"
    /\ "extraction" \in completed
    /\ pipeline_results["extraction"].data_shape[1] = 0
    => /\ pc = "failed" /\ result.status = "failed"
       /\ phases = <<"extracting">>
       /\ DOMAIN pipeline_results = {"extraction"}

\* C5: the provenance log and the per-phase results a run reports hold only
\* entries produced during that run.
C5_NothingFromEarlierRuns ==
    CallReturned =>
        /\ \A i \in DOMAIN transformation_log : transformation_log[i].timestamp = now
        /\ \A phase \in DOMAIN pipeline_results : pipeline_results[phase].time = now
        /\ "transformation" \in DOMAIN pipeline_results =>
              \A i \in DOMAIN pipeline_results["transformation"].transformation_log :
                 pipeline_results["transformation"].transformation_log[i].timestamp = now

\* C6: the configuration is read-only to the pipeline: during and after a call
\* it equals the configuration at the start of the call.
C6_ConfigReadOnly == config = config0

(***************************************************************************)
(* calculate_kpis on numeric tables (SpecK).                               *)
(***************************************************************************)
\* column a: amounts; column b: a denominator or a period
KAmounts == {NA, Num(0), Num(100), Num(150)}
KPeriods == {NA, Num(0), Num(1)}

KTables ==
    {[cols |-> <<ColA, ColB>>, dtypes |-> <<"float64", "float64">>, rows |-> rows] :
        rows \in UNION {[1..r -> {<<x, y>> : x \in KAmounts, y \in KPeriods}] :
                           r \in 0..MaxRows}}

\* the orders a sort may leave rows of equal key in
TieOrders == {p \in [1..MaxRows -> 1..MaxRows] : \A i, h \in 1..MaxRows : p[i] = p[h] => i = h}

RatioKpi(numerator, denominator) ==
    [type |-> "ratio", numerator |-> numerator, denominator |-> denominator]

GrowthKpi(base, period, ties) ==
    [type |-> "growth", base_column |-> base, period_column |-> period, tie_order |-> ties]

ColG == <<"g">>

KKpiConfigs ==
    {<<<<ColK, RatioKpi(ColA, ColB)>>>>,
     <<<<ColK, RatioKpi(ColA, ColZ)>>, <<ColG, SimpleKpi(AddOne(ColA))>>>>,
     <<<<ColG, SimpleKpi(AddOne(ColB))>>, <<ColK, SimpleKpi(AddOne(ColZ))>>>>,
     <<<<ColK, [type |-> "cumulative", base_column |-> ColZ]>>,
       <<ColG, [type |-> "cumulative", base_column |-> ColA]>>>>}
    \cup {<<<<ColK, GrowthKpi(ColA, ColB, p)>>>> : p \in TieOrders}
    \cup {<<<<ColK, GrowthKpi(ColZ, ColB, p)>>, <<ColG, RatioKpi(ColB, ColA)>>>> :
            p \in TieOrders}

KConfigs == {[kpi_config |-> x] : x \in KKpiConfigs}

KInit == TransformerInit(KTables, KConfigs) /\ OrchestratorIdle
KNext ==
    \/ CalculateKpisCall
    \/ TransformDataCall
SpecK == KInit /\ [][KNext]_vars

(***************************************************************************)
(* Claims about calculate_kpis (checked under SpecK).                      *)
(***************************************************************************)
KpisOf == Get(tcfg, "kpi_config", <<>>)
KpisCalculated == lastop = [op |-> "calculate_kpis", ok |-> TRUE]

\* the value of the column name in row i of the table
CellOf(t, name, i) == t.rows[i][CHOOSE j \in Positions(t, name) : TRUE]

\* C11: for a ratio KPI every row whose denominator is 0 gets a missing marker
\* as KPI value, and the computation raises no error (logs no failure) for it.
C11_ZeroDenominatorMissing ==
    KpisCalculated /\ KpisOf = <<<<ColK, RatioKpi(ColA, ColB)>>>> =>
        /\ warnings = <<>>
        /\ Positions(df, ColK) # {}
        /\ \A i \in 1..NRows(df) :
              CellOf(prev, ColB, i) = Num(0) => IsNA(CellOf(df, ColK, i))

\* the columns a KPI definition reads
References(kpi) ==
    CASE kpi.type = "simple" ->
           {o.name : o \in {x \in {kpi.formula.l, kpi.formula.r} : x.col}}
      [] kpi.type = "ratio" -> {kpi.numerator, kpi.denominator}
      [] kpi.type = "growth" -> {kpi.base_column, kpi.period_column}
      [] OTHER -> {kpi.base_column}

MissingReference(kpi, t) == \E c \in References(kpi) : Positions(t, c) = {}

\* how often a subject was warned about during the last call
WarningsAbout(name) == Cardinality({i \in DOMAIN warnings : warnings[i] = name})

KpiStepRan == calls > 0 /\ lastop.op \in {"calculate_kpis", "transform_data"}

\* C12: when a KPI reads a column the table does not have, the call (and the
\* pipeline's transformation) still succeeds, the KPI's column is not in the
\* result, exactly one warning is logged for it, and every other KPI is computed.
C12_MissingColumnKpiSkipped ==
    KpiStepRan =>
        /\ lastop.ok
        /\ \A i \in DOMAIN KpisOf :
              IF MissingReference(KpisOf[i][2], prev)
              THEN Positions(df, KpisOf[i][1]) = {} /\ WarningsAbout(KpisOf[i][1]) = 1
              ELSE Positions(df, KpisOf[i][1]) # {} /\ WarningsAbout(KpisOf[i][1]) = 0

\* a transformation run in which one KPI read a missing column and another was computed
C12_Witness ==
    /\ lastop = [op |-> "transform_data", ok |-> TRUE]
    /\ NRows(df) > 0
    /\ \E i, h \in DOMAIN KpisOf :
          /\ MissingReference(KpisOf[i][2], prev)
          /\ WarningsAbout(KpisOf[i][1]) = 1
          /\ i < h
          /\ Positions(df, KpisOf[h][1]) # {}

GrowthConfigured ==
    /\ Len(KpisOf) = 1
    /\ KpisOf[1][2].type = "growth"
    /\ KpisOf[1][2].base_column = ColA
    /\ KpisOf[1][2].period_column = ColB

\* the rows of prev in ascending order of the period, ties in their original order
StablySorted == SortValues(prev, 2, [i \in 1..MaxRows |-> i])

\* the percentage change of c against q, missing when either is missing
ChangeAgainst(c, q) ==
    IF IsNA(c) \/ IsNA(q) THEN NA
    ELSE IF q.n = 0
         THEN (IF c.n = 0 THEN NA ELSE Inf(IF c.n > 0 THEN 1 ELSE -1))
         ELSE Rat((c.n * q.d - q.n * c.d) * 100, q.n * c.d)

\* C13: a growth KPI sorts the rows stably by the period column, gives the
\* first row a missing KPI and every later row the percentage change of its
\* base value against the row immediately before it (100 then 150 gives 50).
C13_GrowthAgainstPredecessor ==
    KpisCalculated /\ GrowthConfigured =>
        /\ NRows(df) = NRows(prev)
        /\ \A i \in 1..NRows(df) :
              /\ <<df.rows[i][1], df.rows[i][2]>> = StablySorted.rows[i]
              /\ CellOf(df, ColK, i) =
                    IF i = 1 THEN NA
                    ELSE ChangeAgainst(df.rows[i][1], df.rows[i - 1][1])

(***************************************************************************)
(* apply_business_rules on tables of amounts and labels (SpecR).           *)
(***************************************************************************)
RAmounts == {NA, Num(90), Num(150)}

RTables ==
    {[cols |-> <<ColA, ColB>>,
      dtypes |-> <<"float64",
                   IF \E i \in DOMAIN rows : rows[i][2].k = "str" THEN "object" ELSE "float64">>,
      rows |-> rows] :
        rows \in UNION {[1..r -> {<<x, y>> : x \in RAmounts, y \in StrCells}] :
                           r \in 0..MaxRows}}

SetAEqK == <<"s","e","t","_","a","=","K">>
\* an assignment to the column asset_b
SetAssetBEqK == <<"s","e","t","_","a","s","s","e","t","_","b","=","K">>
\* an assignment without a value
SetBOnly == <<"s","e","t","_","b">>
\* neither an assignment nor a drop
Delete == <<"d","e","l","e","t","e">>

DropBig == Rule("drop_big", Above(ColA, 100), KwDrop)
DropAny == Rule("drop_any", Above(ColA, 1), KwDrop)
MarkBig == Rule("mark_big", Above(ColA, 100), SetBEqK)
RelabelBig == Rule("relabel_big", Above(ColA, 100), SetAEqK)

RRuleLists ==
    {<<DropBig>>, <<MarkBig>>,
     <<Rule("asset", Above(ColA, 100), SetAssetBEqK)>>,
     <<RelabelBig, DropAny>>, <<DropAny, RelabelBig>>, <<DropBig, MarkBig>>,
     <<Rule("unparseable", BadSyntax, KwDrop), MarkBig>>,
     <<Rule("no_column", Above(ColZ, 1), KwDrop), DropBig>>,
     <<Rule("no_value", Above(ColA, 100), SetBOnly), DropBig>>,
     <<Rule("delete", Above(ColA, 100), Delete), MarkBig>>,
     <<Rule("blank", Above(ColA, 100), <<>>), DropBig>>}

RConfigs == {[business_rules |-> x] : x \in RRuleLists}

RInit == TransformerInit(RTables, RConfigs) /\ OrchestratorIdle
RNext == ApplyBusinessRulesCall
SpecR == RInit /\ [][RNext]_vars

(***************************************************************************)
(* Claims about apply_business_rules (checked under SpecR).                *)
(***************************************************************************)
RulesOf == Get(tcfg, "business_rules", <<>>)
RulesApplied == lastop = [op |-> "apply_business_rules", ok |-> TRUE]

\* the table a call with the one rule leaves
AloneOn(t, rule) == ApplyRule(t, rule).df

\* C14: the rules are applied in list order, each on the table the earlier
\* rules left: the result of a two-rule list is what the second rule alone
\* makes of the table that the first rule alone made.
C14_RulesInListOrder ==
    RulesApplied =>
        df = IF Len(RulesOf) = 2 THEN AloneOn(AloneOn(prev, RulesOf[1]), RulesOf[2])
             ELSE AloneOn(prev, RulesOf[1])

\* a value assigned by the first rule made the second rule's condition fail to
\* evaluate, while in the other order the second rule would have dropped rows
C14_Witness ==
    /\ RulesApplied
    /\ RulesOf = <<RelabelBig, DropAny>>
    /\ warnings = <<"drop_any">>
    /\ \E i \in 1..NRows(df) : df.rows[i][1] = Str(TextK)
    /\ NRows(AloneOn(prev, DropAny)) < NRows(prev)

\* an action of the form set_<col>=<value>
IsAssign(action) ==
    /\ StartsWith(action, SetPrefix)
    /\ Cardinality({i \in DOMAIN action : action[i] = "="}) = 1

EqualsAt(action) == CHOOSE i \in DOMAIN action : action[i] = "="
\* the column an assign action names: the text between the prefix and "="
NamedColumn(action) == SubSeq(action, Len(SetPrefix) + 1, EqualsAt(action) - 1)
\* the literal value an assign action gives
NamedValue(action) == Str(SubSeq(action, EqualsAt(action) + 1, Len(action)))

\* whether row i of t has an amount above 100 (the condition of the assign rules)
IsBig(t, i) == t.rows[i][1].k = "num" /\ t.rows[i][1].n > 100 * t.rows[i][1].d

OneAssignApplied ==
    /\ RulesApplied
    /\ Len(RulesOf) = 1
    /\ IsAssign(RulesOf[1].action)
    /\ RulesOf[1].condition = Above(ColA, 100)
    /\ Positions(prev, ColA) = {1}
    /\ prev.dtypes[1] = "float64"

\* C15: an assign rule sets the column it names to the literal value on exactly
\* the matching rows; the other rows and the other columns keep their values,
\* and the rows and their order stay as they were.
C15_AssignFrame ==
    OneAssignApplied =>
        LET col == NamedColumn(RulesOf[1].action)
        IN  /\ NRows(df) = NRows(prev)
            /\ \A j \in 1..NCols(df) :
                  IF df.cols[j] = col
                  THEN \A i \in 1..NRows(df) :
                          df.rows[i][j] =
                              IF IsBig(prev, i) THEN NamedValue(RulesOf[1].action)
                              ELSE IF j <= NCols(prev) THEN prev.rows[i][j] ELSE NA
                  ELSE /\ j <= NCols(prev)
                       /\ df.cols[j] = prev.cols[j]
                       /\ \A i \in 1..NRows(df) : df.rows[i][j] = prev.rows[i][j]
            /\ \A j \in 1..NCols(prev) : df.cols[j] = prev.cols[j]

\* the rows of t that do not have an amount above 100, in their order
NotBig(t) == SelectIdx([i \in 1..NRows(t) |-> ~IsBig(t, i)], 1, NRows(t))

OneDropApplied ==
    /\ RulesApplied
    /\ RulesOf = <<DropBig>>
    /\ Positions(prev, ColA) = {1}
    /\ prev.dtypes[1] = "float64"

\* C16: a drop rule leaves exactly the rows that did not match its condition,
\* in their original order and with their values; with the condition
\* "amount > 100" on rows of 150 and 90 exactly the 150 row is removed.
C16_DropKeepsNonMatching ==
    OneDropApplied =>
        /\ df.cols = prev.cols
        /\ df.rows = [p \in 1..Len(NotBig(prev)) |-> prev.rows[NotBig(prev)[p]]]

\* rows of 150 and 90 went in, the row of 90 came out
C16_Witness ==
    /\ OneDropApplied
    /\ NRows(prev) = 2
    /\ prev.rows[1][1] = Num(150)
    /\ prev.rows[2][1] = Num(90)
    /\ df.rows = <<prev.rows[2]>>

\* a rule whose condition cannot be evaluated on t, or whose action is neither
\* a well-formed assignment nor a drop
Malformed(rule, t) ==
    \/ ~Eval(t, rule.condition).ok
    \/ ~(IsAssign(rule.action) \/ StartsWith(rule.action, KwDrop))

\* the names the last log entry reports as applied
ReportedApplied == transformation_log[Len(transformation_log)].details[2]

\* C17: a malformed rule is skipped with a warning: it leaves the table
\* unchanged, is not reported among the applied rules, and the later rules of
\* the list are still applied.
C17_MalformedRuleSkipped ==
    RulesApplied /\ Len(RulesOf) = 2 /\ Malformed(RulesOf[1], prev)
                 /\ ~Malformed(RulesOf[2], prev) =>
        /\ warnings = <<RulesOf[1].name>>
        /\ df = AloneOn(prev, RulesOf[2])
        /\ transformation_log # <<>>
        /\ ReportedApplied = <<RulesOf[2].name>>

(***************************************************************************)
(* remove_duplicates, called repeatedly with either keep (SpecD).          *)
(***************************************************************************)
DConfigs ==
    {EmptyDict} \cup
    {[duplicate_subset |-> Subset(x)] : x \in {<<ColA>>, <<ColA, ColB>>, <<ColZ>>}}

\* remove_duplicates(df, subset) with the default keep='first'
RemoveDuplicatesKeepFirst ==
    Called("remove_duplicates",
           RemoveDuplicates(df, Get(tcfg, "duplicate_subset", NoSubset), "first",
                            transformation_log, calls + 1), <<>>)

\* remove_duplicates(df, subset, keep='last')
RemoveDuplicatesKeepLast ==
    Called("remove_duplicates_last",
           RemoveDuplicates(df, Get(tcfg, "duplicate_subset", NoSubset), "last",
                            transformation_log, calls + 1), <<>>)

DInit == TransformerInit(MTables, DConfigs) /\ OrchestratorIdle
DNext ==
    \/ RemoveDuplicatesKeepFirst
    \/ RemoveDuplicatesKeepLast
SpecD == DInit /\ [][DNext]_vars

(***************************************************************************)
(* Claims about remove_duplicates (checked under SpecD).                   *)
(***************************************************************************)
KeepFirstReturned == lastop = [op |-> "remove_duplicates", ok |-> TRUE]
KeepLastReturned == lastop = [op |-> "remove_duplicates_last", ok |-> TRUE]

\* the key columns of the configured subset in t
KeysOf(t) == KeyPositions(t, Get(tcfg, "duplicate_subset", NoSubset))

\* the rows of t that are equal to row i on the key columns
GroupOf(t, i) == {h \in 1..NRows(t) : \A j \in KeysOf(t) : t.rows[h][j] = t.rows[i][j]}

\* t restricted to the rows in the set idx, in their order
Only(t, idx) == TakeRows(t, SelectIdx([i \in 1..NRows(t) |-> i \in idx], 1, NRows(t)))

Earliest(t) == {i \in 1..NRows(t) : \A h \in GroupOf(t, i) : i <= h}
Latest(t) == {i \in 1..NRows(t) : \A h \in GroupOf(t, i) : h <= i}

\* C18: remove_duplicates with keep='first' keeps, of every group of rows equal
\* on the key columns, the earliest row, in the original order, and a second
\* application returns the same rows; with keep='last' it keeps the latest row.
C18_KeepsEarliestIdempotent ==
    /\ [](KeepFirstReturned => df = Only(prev, Earliest(prev)))
    /\ [](KeepLastReturned => df = Only(prev, Latest(prev)))
    /\ [][KeepFirstReturned /\ KeepFirstReturned' /\ calls' = calls + 1 => df' = df]_vars

\* a second keep='first' application after one that removed a row whose other
\* columns differ from the row kept
C18_Witness ==
    /\ KeepFirstReturned
    /\ calls = 2
    /\ transformation_log[1].operation = "Duplicate Removal"
    /\ transformation_log[1].details[1] = 1
    /\ transformation_log[2].details[1] = 0
    /\ Get(tcfg, "duplicate_subset", NoSubset) = Subset(<<ColA>>)
    /\ df = prev

(***************************************************************************)
(* standardize_column_names on headers of every spelling (SpecN).          *)
(***************************************************************************)
NameChars == {"A", "b", "1", " ", "_"}

Names == UNION {[1..n -> NameChars] : n \in 0..MaxName}

\* two columns of different values; the first header of any spelling
NTables ==
    {[cols |-> h, dtypes |-> <<"float64", "float64">>,
      rows |-> [i \in 1..r |-> <<Num(1), Num(2)>>]] :
        h \in {x \in Names \X {ColA, ColB} : x[1] # x[2]}, r \in 0..MaxRows}

NInit == TransformerInit(NTables, {EmptyDict}) /\ OrchestratorIdle
NNext == StandardizeColumnNamesCall
SpecN == NInit /\ [][NNext]_vars

(***************************************************************************)
(* Claims about standardize_column_names (checked under SpecN).            *)
(***************************************************************************)
Standardized == lastop = [op |-> "standardize_column_names", ok |-> TRUE]

\* lowercase letters, digits and single underscores, no underscore at either end
Canonical(name) ==
    /\ \A i \in DOMAIN name : name[i] \in LowerAlnum \cup {"_"}
    /\ \A i \in 1..(Len(name) - 1) : ~(name[i] = "_" /\ name[i + 1] = "_")
    /\ name # <<>> => name[1] # "_" /\ name[Len(name)] # "_"

\* C19: standardize_column_names is idempotent on the column names, and every
\* name it gives is lowercase, made of a-z, 0-9 and single underscores, with
\* no leading or trailing underscore.
C19_StandardNamesIdempotent ==
    /\ [](Standardized => \A j \in 1..NCols(df) : Canonical(df.cols[j]))
    /\ [][Standardized /\ Standardized' /\ calls' = calls + 1 => df'.cols = df.cols]_vars

\* a second application on a name that the first one had to lower, replace in,
\* collapse and strip
C19_Witness ==
    /\ Standardized
    /\ calls = 2
    /\ df.cols[1] = <<"a", "_", "1">>
    /\ prev.cols = df.cols

\* the two source columns have the same canonical name
Collide(t) == NCols(t) = 2 /\ StandardName(t.cols[1]) = StandardName(t.cols[2])

\* C20: when two source columns get the same canonical name, the table
\* returned has exactly one column of that name, holding the values of the
\* later source column, so the column names stay unique.
C20_LaterColumnOverwrites ==
    Standardized /\ Collide(prev) =>
        /\ NCols(df) = 1
        /\ df.cols = <<StandardName(prev.cols[2])>>
        /\ \A i \in 1..NRows(df) : df.rows[i] = <<prev.rows[i][2]>>

(***************************************************************************)
(* aggregate_data                                                          *)
(***************************************************************************)
\* the order of two group keys (tuples of cells), column by column
TupleLess(x, y) ==
    \E p \in DOMAIN x :
        /\ KeyLess(x[p], y[p])
        /\ \A q \in 1..(p - 1) : x[q] = y[q]

\* one aggregation function on the values of a group: [ok, cell, dtype]
Aggregate(fn, vals) ==
    LET idx == SelectIdx([i \in DOMAIN vals |-> ~IsNA(vals[i])], 1, Len(vals))
        Sum[i \in 0..Len(idx)] ==
            IF i = 0 THEN Num(0) ELSE RatAdd(Sum[i - 1], vals[idx[i]])
    IN  CASE fn = "count" -> [ok |-> TRUE, cell |-> Num(Len(idx)), dtype |-> "int64"]
          [] fn = "sum" /\ \A i \in DOMAIN vals : vals[i].k \in {"num", "na"} ->
               [ok |-> TRUE, cell |-> Sum[Len(idx)], dtype |-> "float64"]
          [] OTHER -> [ok |-> FALSE, cell |-> NA, dtype |-> "object"]

\* df.groupby(group_by).agg(aggregations).reset_index(): groupby drops the rows
\* with a missing key (dropna=True) and sorts the groups by key (sort=True)
GroupByAgg(t, group_by, aggregations) ==
    LET g == [p \in DOMAIN group_by |-> CHOOSE j \in Positions(t, group_by[p]) : TRUE]
        from == [p \in DOMAIN aggregations |->
                    CHOOSE j \in Positions(t, aggregations[p][1]) : TRUE]
        keyOf(i) == [p \in DOMAIN group_by |-> t.rows[i][g[p]]]
        keyed == {i \in 1..NRows(t) : \A p \in DOMAIN group_by : ~IsNA(t.rows[i][g[p]])}
        keys == {keyOf(i) : i \in keyed}
        place(k) == Cardinality({x \in keys : TupleLess(x, k)}) + 1
        sorted == [p \in 1..Cardinality(keys) |-> CHOOSE k \in keys : place(k) = p]
        members(k) == SelectIdx([i \in 1..NRows(t) |-> i \in keyed /\ keyOf(i) = k],
                                1, NRows(t))
        agg(k, p) == Aggregate(aggregations[p][2],
                               [m \in DOMAIN members(k) |-> t.rows[members(k)[m]][from[p]]])
    IN  [cols |-> group_by \o [p \in DOMAIN aggregations |-> aggregations[p][1]],
         dtypes |-> [p \in DOMAIN group_by |-> t.dtypes[g[p]]]
                    \o [p \in DOMAIN aggregations |-> Aggregate(aggregations[p][2], <<>>).dtype],
         rows |-> [r \in DOMAIN sorted |->
                     sorted[r] \o [p \in DOMAIN aggregations |-> agg(sorted[r], p).cell]]]

\* aggregate_data: an empty group_by, a column that is missing or not unique,
\* or an aggregation pandas cannot do raises, and the exception is re-raised
AggregateData(t, group_by, aggregations, log, clock) ==
    IF \/ group_by = <<>>
       \/ \E p \in DOMAIN group_by : Cardinality(Positions(t, group_by[p])) # 1
       \/ \E p \in DOMAIN aggregations :
             \/ Cardinality(Positions(t, aggregations[p][1])) # 1
             \/ aggregations[p][1] \in Range(group_by)
             \/ ~Aggregate(aggregations[p][2],
                           Column(t, CHOOSE j \in Positions(t, aggregations[p][1]) : TRUE)).ok
    THEN Raised(t, log)
    ELSE \* the set binds the table once
         CHOOSE out \in
            {Rebound(u, LogTransformation(log, clock, "Data Aggregation",
                                          <<NRows(t), NCols(t), NRows(u), NCols(u)>>), t) :
                u \in {GroupByAgg(t, group_by, aggregations)}} : TRUE

(***************************************************************************)
(* aggregate_data on tables with missing keys and values (SpecA).          *)
(***************************************************************************)
ARows == {<<x, y, z>> : x \in {NA, Num(1), Num(2)}, y \in {NA, Num(1)}, z \in {NA, Num(2)}}

ATables ==
    {[cols |-> <<ColA, ColB, ColC>>, dtypes |-> <<"float64", "float64", "float64">>,
      rows |-> rows] :
        rows \in UNION {[1..r -> ARows] : r \in 0..MaxRows}}

\* the arguments of the calls: group_by and aggregations
AConfigs ==
    {[group_by |-> g, aggregations |-> a] :
        g \in {<<ColA>>, <<ColA, ColB>>, <<ColZ>>, <<>>},
        a \in {<<<<ColC, "count">>>>, <<<<ColC, "sum">>>>, <<<<ColC, "no_such_function">>>>}}

AggregateDataCall ==
    \E r \in {AggregateData(df, tcfg.group_by, tcfg.aggregations,
                            transformation_log, calls + 1)} :
        Called("aggregate_data", r, <<>>)

AInit == TransformerInit(ATables, AConfigs) /\ OrchestratorIdle
ANext == AggregateDataCall
SpecA == AInit /\ [][ANext]_vars

(***************************************************************************)
(* Claims about aggregate_data (checked under SpecA).                      *)
(***************************************************************************)
Aggregated == lastop = [op |-> "aggregate_data", ok |-> TRUE] /\ calls = 1

\* the distinct combinations of the group-by values occurring in t
Combinations(t) ==
    {[p \in DOMAIN tcfg.group_by |->
         t.rows[i][CHOOSE j \in Positions(t, tcfg.group_by[p]) : TRUE]] : i \in 1..NRows(t)}

RECURSIVE SumOfColumn(_, _, _)
SumOfColumn(t, j, i) ==
    IF i > NRows(t) THEN 0 ELSE t.rows[i][j].n + SumOfColumn(t, j, i + 1)

\* C21: aggregate_data returns one row per distinct combination of group-by
\* values occurring in the table, and the counts of a count aggregation add up
\* to the number of rows of the table, missing values included.
C21_GroupsAndCounts ==
    Aggregated /\ tcfg.aggregations = <<<<ColC, "count">>>> =>
        /\ NRows(df) = Cardinality(Combinations(prev))
        /\ SumOfColumn(df, NCols(df), 1) = NRows(prev)

(***************************************************************************)
(* convert_data_types on a column of mixed cells (SpecC).                  *)
(***************************************************************************)
TextYear == <<"2","0","2","4">>

\* column a: amounts; column b: numbers, a text, a text that spells a year
CRows == {<<x, y>> : x \in {NA, Num(2)}, y \in {NA, Num(1), Str(TextX), Str(TextYear)}}

CTables ==
    {[cols |-> <<ColA, ColB>>,
      dtypes |-> <<"float64",
                   IF \E i \in DOMAIN rows : rows[i][2].k = "str" THEN "object" ELSE "float64">>,
      rows |-> rows] :
        rows \in UNION {[1..r -> CRows] : r \in 0..MaxRows}}

TargetTypes == {"datetime", "numeric", "category", "int64", "float64"}

CConfigs == {[type_mapping |-> <<<<ColB, x>>>>] : x \in TargetTypes}

CInit == TransformerInit(CTables, CConfigs) /\ OrchestratorIdle
CNext == ConvertDataTypesCall
SpecC == CInit /\ [][CNext]_vars

(***************************************************************************)
(* Claims about convert_data_types (checked under SpecC).                  *)
(***************************************************************************)
TargetOf == tcfg.type_mapping[1][2]

\* the cell coerced to the target type, NA when it cannot be
Coerced(c, target) ==
    CASE target = "datetime" -> CoerceDatetime(c)
      [] target = "category" -> c
      [] target = "int64" -> IF IsNA(c) THEN NA ELSE CastCell(c, target)
      [] OTHER -> CoerceNumeric(c)

FirstConversion == lastop.op = "convert_data_types" /\ calls = 1

\* C22: for every target type a cell that cannot be coerced becomes a missing
\* marker while the other cells of the column are converted; only when no cell
\* of the column can be coerced is the column left as it was; the conversion
\* never raises and never changes another column.
C22_PerCellCoercion ==
    FirstConversion =>
        /\ lastop.ok
        /\ NRows(df) = NRows(prev)
        /\ df.cols = prev.cols
        /\ Column(df, 1) = Column(prev, 1)
        /\ df.dtypes[1] = prev.dtypes[1]
        /\ \/ Column(df, 2) = [i \in 1..NRows(prev) |-> Coerced(prev.rows[i][2], TargetOf)]
           \/ /\ Column(df, 2) = Column(prev, 2)
              /\ \A i \in 1..NRows(prev) : IsNA(Coerced(prev.rows[i][2], TargetOf))

\* the file patterns the extraction of the current run was called with
PatternsUsed ==
    Get(Updated(Get(config0, "extraction", EmptyDict), Get(kwargs, "extraction", EmptyDict)),
        "file_patterns", DefaultPatterns)

\* whether the file was discovered and could be read
WasRead(f) ==
    /\ \E i \in DOMAIN PatternsUsed : PatternsUsed[i] = "*." \o f.ext
    /\ f.readable
    /\ f.ext \in {"xlsx", "xls", "csv"}

RECURSIVE RowsRead(_, _)
\* the data rows of the files from the i-th on that were read, each with the
\* name of its file
RowsRead(files, i) ==
    IF i > Len(files) THEN <<>>
    ELSE (IF WasRead(files[i])
          THEN [h \in 1..Len(files[i].table.rows) |->
                   <<files[i].table.rows[h], files[i].name>>]
          ELSE <<>>) \o RowsRead(files, i + 1)

\* extract_data has just returned in this run
ExtractionReturned == pc = "transforming" \/ (pc = "failed" /\ exc = NoDataMessage)

\* C23: a file that cannot be read is skipped: extract_data returns the rows
\* of the files that were read, in discovery order (the empty table when none
\* was read), and it raises only when the discovery itself fails.
C23_UnreadableFileSkipped ==
    /\ ExtractionReturned =>
          /\ NRows(df) = Len(RowsRead(env.files, 1))
          /\ \A i \in 1..NRows(df) :
                /\ SubSeq(df.rows[i], 1, 2) = RowsRead(env.files, 1)[i][1]
                /\ NCols(df) > 2 => df.rows[i][3] = Str(RowsRead(env.files, 1)[i][2])
    /\ pc = "failed" /\ phases = <<"extracting">> /\ exc # NoDataMessage =>
          \E i \in DOMAIN PatternsUsed : PatternsUsed[i] = ""

\* an unreadable file came first in the directory and the rows of the next
\* file were extracted
C23_Witness ==
    /\ pc = "transforming"
    /\ env.files = <<FileBad, FileOne>>
    /\ NRows(df) = 1
    /\ df.rows[1][3] = Str(FileOne.name)

\* the caller gave a configuration file that exists and cannot be parsed
MalformedConfigGiven ==
    env.config_file.given /\ env.config_file.exists /\ ~env.config_file.parses

\* C24: a malformed configuration is fatal: no run of the pipeline starts a
\* phase, and no extraction is made with another configuration than the one
\* the caller supplied.
C24_MalformedConfigFatal ==
    MalformedConfigGiven => phases = <<>> /\ pc = "idle"

(***************************************************************************)
(* create_calculated_fields with formulas that fail (SpecF).               *)
(***************************************************************************)
FCalculations ==
    {<<<<ColC, AddOne(ColA)>>>>,
     <<<<ColC, AddOne(ColZ)>>, <<ColK, AddOne(ColA)>>>>,
     <<<<ColC, AddOne(ColA)>>, <<ColK, AddOne(ColC)>>>>,
     <<<<ColC, AddOne(ColZ)>>, <<ColK, AddOne(ColC)>>>>,
     <<<<ColC, BadSyntax>>, <<ColK, AddOne(ColB)>>>>,
     <<<<ColC, NoFormula>>, <<ColK, Formula("+", ColRef(ColA), ColRef(ColB))>>>>}

FConfigs == {[calculations |-> x] : x \in FCalculations}

FInit == TransformerInit(MTables, FConfigs) /\ OrchestratorIdle
FNext == CreateCalculatedFieldsCall
SpecF == FInit /\ [][FNext]_vars

(***************************************************************************)
(* Claims about create_calculated_fields (checked under SpecF).            *)
(***************************************************************************)
CalculationsOf == Get(tcfg, "calculations", <<>>)
FieldsCalculated == lastop.op = "create_calculated_fields"

\* whether the formula of the field can be evaluated on t
Evaluates(t, field) == Eval(t, field[2]).ok

\* the table a call with the one field leaves
FieldAloneOn(t, field) ==
    IF Evaluates(t, field) THEN AssignColumn(t, field[1], Eval(t, field[2]).vals) ELSE t

\* C25: each formula fails on its own: a formula that cannot be evaluated adds
\* no column and leaves the table as it is, the other formulas are evaluated in
\* configuration order, and a later formula sees the column an earlier one made.
C25_FormulasIndependent ==
    FieldsCalculated =>
        LET first == CalculationsOf[1]
            mid == FieldAloneOn(prev, first)
        IN  /\ lastop.ok
            /\ ~Evaluates(prev, first) => mid = prev
            /\ IF Len(CalculationsOf) = 1
               THEN /\ df = mid
                    /\ warnings = IF Evaluates(prev, first) THEN <<>> ELSE <<first[1]>>
               ELSE /\ df = FieldAloneOn(mid, CalculationsOf[2])
                    /\ warnings = (IF Evaluates(prev, first) THEN <<>> ELSE <<first[1]>>)
                                  \o (IF Evaluates(mid, CalculationsOf[2]) THEN <<>>
                                      ELSE <<CalculationsOf[2][1]>>)

\* the first formula read a missing column and the second one made its column
C25_Witness ==
    /\ FieldsCalculated
    /\ calls = 1
    /\ CalculationsOf = <<<<ColC, AddOne(ColZ)>>, <<ColK, AddOne(ColA)>>>>
    /\ warnings = <<ColC>>
    /\ Positions(df, ColC) = {}
    /\ Positions(df, ColK) = {3}
    /\ NRows(df) > 0

\* the names of the configured KPIs
KpiNames == {KpisOf[i][1] : i \in DOMAIN KpisOf}

\* C26: calculate_kpis only adds or overwrites the columns named after its
\* KPIs: the rows, their order and the values of every other column are those
\* of the input, also when a KPI fails or is skipped.
C26_KpisOnlyAddColumns ==
    KpisCalculated =>
        /\ NRows(df) = NRows(prev)
        /\ \A j \in 1..NCols(prev) :
              /\ df.cols[j] = prev.cols[j]
              /\ prev.cols[j] \notin KpiNames => Column(df, j) = Column(prev, j)
        /\ \A j \in (NCols(prev) + 1)..NCols(df) : df.cols[j] \in KpiNames

\* C27: an assign rule 'set_<col>=<value>' writes exactly the column <col>, the
\* text between the leading prefix and "=", also when <col> itself contains
\* 'set_'; no column of another name is created or written.
C27_WritesNamedColumn ==
    RulesApplied /\ Len(RulesOf) = 1 /\ IsAssign(RulesOf[1].action)
                 /\ Eval(prev, RulesOf[1].condition).ok =>
        LET col == NamedColumn(RulesOf[1].action)
        IN  /\ df.cols = IF Positions(prev, col) # {} THEN prev.cols
                         ELSE Append(prev.cols, col)
            /\ \A j \in 1..NCols(prev) :
                  prev.cols[j] # col => Column(df, j) = Column(prev, j)

\* run_transformation has just returned in this run
TransformationReturned == pc = "loading"

\* C28: after a successful run_transformation the recorded original_shape is
\* the shape the raw table had when extraction handed it over (the
\* extraction's data_shape), under every transformation configuration.
C28_OriginalShapeIsRawShape ==
    TransformationReturned =>
        pipeline_results.transformation.original_shape
            = pipeline_results.extraction.data_shape

\* the formats this run asked create_multi_format_report for
FormatsRequested ==
    LET loading_config == Updated(Get(config0, "loading", EmptyDict),
                                  Get(kwargs, "loading", EmptyDict))
        formats == Get(loading_config, "formats", DefaultFormats)
    IN  IF formats.kind = "none" THEN Range(DefaultFormats.items)
        ELSE Range(formats.items)

RecognisedFormats == {"csv", "excel", "excel_styled", "summary"}

RunSucceeded == pc = "done" /\ result.status = "success"

\* C29: a result with status 'success' is returned only if every requested
\* recognised output format (csv, excel, excel_styled, summary) produced an
\* artifact; a format that could not be written never leaves a successful
\* run whose output_files lacks it.
C29_SuccessOnlyIfFormatsWritten ==
    RunSucceeded =>
        FormatsRequested \cap RecognisedFormats \subseteq DOMAIN result.output_files

\* C30: in a result with status 'success' every entry of output_files holds
\* the non-empty location of an artifact that was written, and
\* output_files_generated is the number of written artifacts; a metadata
\* report that could not be created is neither listed nor counted.
C30_OutputFilesAreWritten ==
    RunSucceeded =>
        /\ \A name \in DOMAIN result.output_files :
              /\ result.output_files[name] # <<>>
              /\ name \notin env.broken
        /\ result.data_summary.output_files_generated
              = Cardinality({name \in DOMAIN result.output_files :
                                result.output_files[name] # <<>>})

====
